---- MODULE Spec2Model ----
(***************************************************************************)
(* A model of libteal's two process-pipeline engines:                      *)
(*   libteal/pipeline.py  (impl = "pipeline"): launch() spawns the stages  *)
(*       in the caller's thread;                                           *)
(*   libteal/subpipe.py   (impl = "subpipe"): launch() starts a PipeThread *)
(*       that spawns the stages and then communicates with the last one.   *)
(* Python's subprocess.Popen is modelled by what the two engines rely on:  *)
(* it creates an OS process, a pipe for every stream given as PIPE (the    *)
(* parent keeps the read end as Popen.stdout / Popen.stderr), it raises    *)
(* when the executable does not exist or when the stdin file object is     *)
(* closed, and poll()/wait() cache the exit status in Popen.returncode.    *)
(***************************************************************************)
EXTENDS Integers, Sequences, FiniteSets, TLC

VARIABLES
    impl,       \* which engine the pipeline object belongs to
    pstdin,     \* subpipe: Pipeline.stdin ("None" in pipeline.py, which takes no stdin)
    pstdout,    \* Pipeline.stdout after the constructor
    pstderr,    \* Pipeline.stderr after the constructor
    commands,   \* Pipeline.commands: sequence of Command / SubCommand
    procs,      \* every OS process ever spawned (a Popen object each), by pid
    pipes,      \* every OS pipe ever created by Popen, by pipe id
    threads,    \* one record per execution of the launch sequence
    curthread,  \* subpipe: Pipeline.thread (index into threads, 0 = None)
    caller,     \* the calling thread: what call it is inside
    capture,    \* subpipe: Pipeline.output and Pipeline.error
    payload,    \* bytes the first stage's program writes to its forwarded stream
    indata,     \* the indata given to the constructor (<<>>: none)
    text,       \* subpipe: Pipeline.text
    files,      \* the contents of the temporary files behind stdin/stdout/stderr
    obs,        \* a second thread of the calling program: what call it is inside
    lock,       \* lockfile.py: the lock file and the processes using a PIDLock
    peek,       \* peek_reader.py: a file, its writer and a PeekReader on it
    env,        \* the base_env and export given to the constructor
    ret         \* the outcome of the call that has just completed

vars == <<impl, pstdin, pstdout, pstderr, commands, procs, pipes, threads, curthread,
          caller, capture, payload, indata, text, files, obs, lock, peek,
          env, ret>>

----------------------------------------------------------------------------
(* Bounds of the model *)
MaxStages == 2
MaxLaunch == 2
MaxProcs == 3
PipeCap == 2
MaxBytes == 4
TimeoutTicks == 2
NumLockers == 2
MaxFile == 2
ReadSize == 2

(* Values *)
Impls == {"pipeline", "subpipe"}
PipeModes == {"PIPE_STDOUT", "PIPE_STDERR", "PIPE_BOTH",
              "PIPE_STDOUT_QUIET", "PIPE_STDERR_QUIET"}
SIGTERM == 15
SIGKILL == 9
NormalExits == {0, 1}
NoRet == [op |-> "none", val |-> <<>>, exc |-> "none"]
(* The caller outside any call.  total and item count the clock ticks spent
   in wait(timeout): since the call began, and since the current
   Popen.wait(timeout) began *)
Idle == [pc |-> "idle", i |-> 0, res |-> <<>>, timeout |-> FALSE,
         total |-> 0, item |-> 0, sig |-> 0, target |-> 0]
Inherit == [kind |-> "inherit", id |-> 0]
(* Python values held in lists and attributes: None, False, an int,
   or data (a sequence of bytes or of characters) *)
NoneV == [k |-> "None", v |-> 0]
FalseV == [k |-> "False", v |-> 0]
IntV(c) == [k |-> "int", v |-> c]
DataV(d) == [k |-> "data", v |-> d]

(* Pipeline.output and Pipeline.error of subpipe.py *)
NoCapture == [output |-> NoneV, error |-> NoneV, assigned |-> 0]

(* Environments: dictionaries from variable names to values.  An argument
   left at its default is not given. *)
EmptyDict == [k \in {} |-> 0]
NoArg == [given |-> FALSE, d |-> EmptyDict]
Arg(d) == [given |-> TRUE, d |-> d]

(* os.environ *)
OsEnviron == [k \in {"A"} |-> 0]

(* for key in b: a[key] = b[key] *)
Overlay(a, b) ==
    [k \in DOMAIN a \cup DOMAIN b |-> IF k \in DOMAIN b THEN b[k] ELSE a[k]]

(* pipeline.py Pipeline.__init__, lines 108-111: self.environ *)
PipelineEnviron(e) ==
    Overlay(IF e.base.given THEN e.base.d ELSE OsEnviron, e.export.d)

(* The environment of a command appended with base_env=sb, export=se.
   pipeline.py append lines 182-185: self.environ, or the command's
   base_env, with the command's export (default {}) on top.  subpipe.py
   append lines 222-228 and _build_env lines 87-105: the command's base_env
   and export each replace the pipeline's when given (not None). *)
StageEnviron(im, e, sb, se) ==
    IF im = "pipeline"
    THEN Overlay(IF sb.given THEN sb.d ELSE PipelineEnviron(e), se.d)
    ELSE LET b == IF sb.given THEN sb ELSE e.base
             x == IF se.given THEN se ELSE e.export
         IN  Overlay(IF b.given THEN b.d ELSE OsEnviron, x.d)

(* The second thread is outside any call; no PIDLock and no PeekReader is
   in use *)
ObsIdle == [pc |-> "idle", op |-> "none", i |-> 0, val |-> <<>>, sig |-> 0,
            target |-> 0, done |-> "none", exc |-> "none"]
NoLock == [file |-> <<>>, exists |-> FALSE, proc |-> <<>>, overlap |-> FALSE]
NoPeek == [disk |-> <<>>, buf |-> <<>>, fdoff |-> 0, pos |-> 0, fh |-> TRUE,
           text |-> FALSE, closed |-> FALSE, pc |-> "idle", op |-> "none",
           size |-> 0, limit |-> 0, sentinel |-> FALSE, full |-> <<>>,
           prev |-> 0,
           exc |-> "none", actor |-> "none"]
Unused == obs = ObsIdle /\ lock = NoLock /\ peek = NoPeek

(* The temporary files: the one holding indata, read through one shared file
   offset, and the two that pipeline.py creates for stdout=PIPE, stderr=PIPE *)
NoFiles == [stdin |-> [data |-> <<>>, pos |-> 0],
            stdout |-> <<>>, stderr |-> <<>>]

(* The pipe-mode dictionaries *)
ModeStdout(m) ==
    CASE m = "PIPE_STDOUT" -> "PIPE"
      [] m = "PIPE_STDERR" -> "None"
      [] m = "PIPE_BOTH" -> "PIPE"
      [] m = "PIPE_STDOUT_QUIET" -> "PIPE"
      [] m = "PIPE_STDERR_QUIET" -> "DEVNULL"

ModeStderr(m) ==
    CASE m = "PIPE_STDOUT" -> "None"
      [] m = "PIPE_STDERR" -> "PIPE"
      [] m = "PIPE_BOTH" -> "STDOUT"
      [] m = "PIPE_STDOUT_QUIET" -> "DEVNULL"
      [] m = "PIPE_STDERR_QUIET" -> "PIPE"

ModeStream(m) ==
    IF m \in {"PIPE_STDERR", "PIPE_STDERR_QUIET"} THEN 2 ELSE 1

(* The pipe attached to the stream that the process's pipe mode designates
   for forwarding: stderr for PIPE_STDERR and PIPE_STDERR_QUIET, stdout
   otherwise; 0 if that stream has no pipe *)
FwdPipe(pr) == IF ModeStream(pr.mode) = 2 THEN pr.stderr ELSE pr.stdout

(* Pipeline.__init__ of pipeline.py: PIPE becomes a temporary file, a file
   name (PATH) the file that open(name, 'w+b') returns; the open of a name
   that cannot be opened (BADPATH) raises OSError and leaves nothing *)
ResolveStream(s) ==
    IF s \in {"PIPE", "PATH"} THEN "FILE"
    ELSE IF s = "BADPATH" THEN "UNOPENED" ELSE s

----------------------------------------------------------------------------
InitObject ==
    /\ impl \in Impls
    /\ pstdin = IF impl = "pipeline" THEN "None" ELSE "PIPE"
    /\ \E so \in {"None", "PIPE"} :
          pstdout = IF impl = "pipeline" THEN ResolveStream(so) ELSE so
    /\ pstderr = "None"
    /\ commands = <<>>
    /\ procs = <<>>
    /\ pipes = <<>>
    /\ threads = <<>>
    /\ curthread = 0
    /\ caller = Idle
    /\ capture = NoCapture
    /\ indata = <<>>
    /\ text = TRUE
    /\ files = NoFiles
    /\ Unused
    /\ env = [base |-> NoArg, export |-> NoArg]
    /\ ret = NoRet

(* Under Spec the programs are abstract: they write nothing that is modelled
   and exit at any time *)
Init == InitObject /\ payload = 0

----------------------------------------------------------------------------
Last(s) == s[Len(s)]

(* Pipeline.append: the stream number stored with the command.  subpipe.py
   builds SubCommand(command, stdout, stderr, cwd, base_env, export, text)
   and never passes pipe['stream'], so SubCommand.stream keeps its default 0. *)
AppendStream(im, m) == IF im = "pipeline" THEN ModeStream(m) ELSE 0

NewCommand(im, m, ex, sb, se) ==
    [mode |-> m, exists |-> ex, stdout |-> ModeStdout(m),
     stderr |-> ModeStderr(m), stream |-> AppendStream(im, m), subproc |-> 0,
     base_env |-> sb, export |-> se,
     environ |-> StageEnviron(im, env, sb, se)]

(* Pipeline.append(command, base_env=sb, export=se, pipe=m).  ex: whether
   the command names an executable that Popen can start. *)
append(m, ex, sb, se) ==
    /\ caller.pc = "idle"
    /\ Len(commands) < MaxStages
    /\ commands' = Append(commands, NewCommand(impl, m, ex, sb, se))
    /\ ret' = [NoRet EXCEPT !.op = "append"]
    /\ UNCHANGED <<impl, pstdin, pstdout, pstderr, procs, pipes, threads, curthread,
                   caller, capture, payload,
                   indata, text, files, obs, lock, peek, env>>

(* bytes(indata, 'utf-8'), indata being given as a str; a text-mode stdin
   encodes what communicate() writes in the same way *)
RECURSIVE Utf8(_)
Utf8(str) ==
    IF str = <<>> THEN <<>>
    ELSE (IF Head(str) < 128 THEN <<Head(str)>>
          ELSE <<192 + (Head(str) \div 64), 128 + (Head(str) % 64)>>)
         \o Utf8(Tail(str))

TempFile == [kind |-> "file", id |-> 0]

(* subpipe.py PipeThread.run, lines 126-143: indata goes to a temporary file
   when there is more than one command, else to communicate() *)
UsesTemp(im, cs, data) == im = "subpipe" /\ data # <<>> /\ Len(cs) > 1
CommIndata(im, cs, data) ==
    IF im = "subpipe" /\ data # <<>> /\ Len(cs) <= 1 THEN Utf8(data) ELSE <<>>

(* The stdin given to the first stage: pipeline.py self.stdin (None without
   indata, else the temporary file holding it), subpipe.py
   self.pipeline.stdin (PIPE by default) or the temporary file, which
   replaces it *)
FirstStdin(im, cs, data) ==
    IF im = "pipeline"
    THEN IF data = <<>> THEN Inherit ELSE TempFile
    ELSE IF UsesTemp(im, cs, data) THEN TempFile
         ELSE IF pstdin = "PIPE" THEN [kind |-> "newpipe", id |-> 0]
         ELSE IF pstdin = "DEVNULL" THEN [kind |-> "devnull", id |-> 0]
         ELSE Inherit

(* input: what communicate() still has to write; outbuf, errbuf: what it has
   read *)
NewThread(im, cs, data) ==
    [pc |-> "spawn", i |-> 1, prev |-> 0, stdin |-> FirstStdin(im, cs, data),
     exc |-> "none", target |-> 0, input |-> CommIndata(im, cs, data),
     outbuf |-> <<>>, errbuf |-> <<>>]

(* pipeline.py launch, lines 201-203: the last command takes the
   pipeline-level stdout and stderr *)
SetLastStreams(cs, so, se) ==
    [cs EXCEPT ![Len(cs)].stdout = so, ![Len(cs)].stderr = se]

(* Pipeline.launch up to the start of the launch sequence *)
launch ==
    /\ caller.pc = "idle"
    /\ Len(threads) < MaxLaunch
    /\ IF Len(commands) = 0
       THEN /\ ret' = [NoRet EXCEPT !.op = "launch"]
            /\ UNCHANGED <<commands, threads, curthread, caller, files>>
       ELSE /\ threads' = Append(threads,
                                 NewThread(impl, commands, indata))
            /\ files' = IF UsesTemp(impl, commands, indata)
                        THEN [files EXCEPT
                                !.stdin = [data |-> Utf8(indata), pos |-> 0]]
                        ELSE files
            /\ IF impl = "pipeline"
               THEN /\ commands' = SetLastStreams(commands, pstdout, pstderr)
                    /\ caller' = [Idle EXCEPT !.pc = "launch"]
                    /\ ret' = NoRet
                    /\ UNCHANGED curthread
               ELSE /\ curthread' = Len(threads) + 1
                    /\ ret' = [NoRet EXCEPT !.op = "launch"]
                    /\ UNCHANGED <<commands, caller>>
    /\ UNCHANGED <<impl, pstdin, pstdout, pstderr, procs, pipes, capture, payload,
                   indata, text, obs, lock, peek, env>>

----------------------------------------------------------------------------
(* The launch sequence: pipeline.py lines 205-232, subpipe.py lines 145-170.
   One step is one iteration of the for loop. *)

(* The test on prev_command.stream inverted *)
PrevStreamSwapped(cs, ps, prev) ==
    IF cs[prev].stream = 2 THEN ps[cs[prev].subproc].stdout
                           ELSE ps[cs[prev].subproc].stderr

(* Popen.stdout / Popen.stderr of the previous command's process, chosen by
   prev_command.stream: a pipe id, or 0 for None *)
PrevStream(cs, ps, prev) ==
    IF cs[prev].stream = 2 THEN ps[cs[prev].subproc].stderr
                           ELSE ps[cs[prev].subproc].stdout

(* The stdin argument of Popen for this iteration *)
StdinFor(cs, ps, th) ==
    IF th.prev = 0 THEN th.stdin
    ELSE IF PrevStream(cs, ps, th.prev) = 0 THEN Inherit
         ELSE [kind |-> "pipe", id |-> PrevStream(cs, ps, th.prev)]

(* What Popen raises, if anything: a closed file object given as stdin has
   no fileno(); a missing executable cannot be executed *)
PopenError(item, stdin, pp) ==
    IF stdin.kind = "pipe" /\ ~pp[stdin.id].parentRead THEN "ValueError"
    ELSE IF ~item.exists THEN "FileNotFoundError"
    ELSE "none"

(* The pipes Popen creates for the streams given as PIPE.  Of an output
   pipe the parent keeps the read end (Popen.stdout, Popen.stderr), of the
   input pipe the write end (Popen.stdin); buf is the bytes in the pipe. *)
NewPipe == [parentRead |-> TRUE, parentWrite |-> FALSE, buf |-> <<>>]
StdinPipe == [parentRead |-> FALSE, parentWrite |-> TRUE, buf |-> <<>>]
PipesAfterPopen(item, stdin, pp) ==
    pp \o (IF stdin.kind = "newpipe" THEN <<StdinPipe>> ELSE <<>>)
       \o (IF item.stdout = "PIPE" THEN <<NewPipe>> ELSE <<>>)
       \o (IF item.stderr = "PIPE" THEN <<NewPipe>> ELSE <<>>)

NewProc(item, k, t, stdin, pp) ==
    [stage |-> k, thread |-> t, mode |-> item.mode,
     stdin |-> IF stdin.kind = "newpipe"
               THEN [kind |-> "pipe", id |-> Len(pp) + 1] ELSE stdin,
     stdout |-> IF item.stdout = "PIPE"
                THEN Len(PipesAfterPopen(item, stdin, pp))
                     - (IF item.stderr = "PIPE" THEN 1 ELSE 0)
                ELSE 0,
     stderr |-> IF item.stderr = "PIPE"
                THEN Len(PipesAfterPopen(item, stdin, pp)) ELSE 0,
     stdinPipe |-> IF stdin.kind = "newpipe" THEN Len(pp) + 1 ELSE 0,
     out |-> item.stdout, err |-> item.stderr,
     left |-> IF k = 1 THEN payload ELSE 0,
     pend |-> <<>>, wrote |-> <<>>, wroteErr |-> <<>>,
     state |-> "running", code |-> 0, returncode |-> NoneV,
     signalled |-> 0]

(* prev_command.subproc.<stream>.close(): closing None raises *)
ClosePrev(cs, ps, pp, prev) ==
    IF prev = 0 \/ PrevStream(cs, ps, prev) = 0 THEN pp
    ELSE [pp EXCEPT ![PrevStream(cs, ps, prev)].parentRead = FALSE]

CloseError(cs, ps, prev) ==
    IF prev # 0 /\ PrevStream(cs, ps, prev) = 0 THEN "AttributeError"
    ELSE "none"

(* An exception leaves the launch sequence: in pipeline.py it reaches the
   caller of launch(), in subpipe.py it ends the PipeThread *)
Raise(t, e) ==
    /\ threads' = [threads EXCEPT ![t].pc = "error", ![t].exc = e]
    /\ IF impl = "pipeline"
       THEN /\ caller' = Idle
            /\ ret' = [NoRet EXCEPT !.op = "launch", !.exc = e]
       ELSE /\ ret' = NoRet
            /\ UNCHANGED caller

SpawnStage(t) ==
    /\ threads[t].pc = "spawn"
    /\ threads[t].i <= Len(commands)
    /\ Len(procs) < MaxProcs
    /\ LET th == threads[t]
           k == th.i
           item == commands[k]
           stdin == StdinFor(commands, procs, th)
           err == PopenError(item, stdin, pipes)
           pid == Len(procs) + 1
           cerr == CloseError(commands, procs, th.prev)
       IN  IF err # "none"
           THEN /\ Raise(t, err)
                /\ UNCHANGED <<commands, procs, pipes>>
           ELSE /\ procs' = Append(procs, NewProc(item, k, t, stdin, pipes))
                /\ commands' = [commands EXCEPT ![k].subproc = pid]
                /\ pipes' = ClosePrev(commands, procs,
                                      PipesAfterPopen(item, stdin, pipes),
                                      th.prev)
                /\ IF cerr # "none"
                   THEN Raise(t, cerr)
                   ELSE /\ threads' = [threads EXCEPT ![t].prev = k,
                                                      ![t].i = k + 1]
                        /\ ret' = NoRet
                        /\ UNCHANGED caller
    /\ UNCHANGED <<impl, pstdin, pstdout, pstderr, curthread, capture, payload,
                   indata, text, files, obs, lock, peek, env>>

(* communicate() closes Popen.stdin once it has nothing more to write *)
CloseStdin(pp, pr) ==
    IF pr.stdinPipe = 0 THEN pp
    ELSE [pp EXCEPT ![pr.stdinPipe].parentWrite = FALSE]

(* The for loop is exhausted.  pipeline.py: launch() returns.  subpipe.py:
   the thread calls self.pipeline.commands[-1].subproc.communicate(input),
   which closes the process's stdin at once when there is no input. *)
LoopExit(t) ==
    /\ threads[t].pc = "spawn"
    /\ threads[t].i > Len(commands)
    /\ IF impl = "pipeline"
       THEN /\ threads' = [threads EXCEPT ![t].pc = "done"]
            /\ caller' = Idle
            /\ ret' = [NoRet EXCEPT !.op = "launch"]
            /\ UNCHANGED pipes
       ELSE /\ threads' = [threads EXCEPT ![t].pc = "communicate",
                                          ![t].target = Last(commands).subproc]
            /\ pipes' = IF threads[t].input = <<>>
                        THEN CloseStdin(pipes, procs[Last(commands).subproc])
                        ELSE pipes
            /\ ret' = NoRet
            /\ UNCHANGED caller
    /\ UNCHANGED <<impl, pstdin, pstdout, pstderr, commands, procs, curthread,
                   capture, payload, indata, text, files, obs, lock, peek, env>>

(* Popen.poll(): the exit status is cached in returncode once the process
   is seen to have exited *)
Polled(pr) ==
    IF pr.state = "exited" THEN [pr EXCEPT !.returncode = IntV(pr.code)]
    ELSE pr

(* A text-mode stream decodes what it reads with universal newlines: CR LF
   and a lone CR (carriage return, 13) become LF (line feed, 10) *)
RECURSIVE TextDecode(_)
TextDecode(bs) ==
    IF bs = <<>> THEN <<>>
    ELSE IF Head(bs) = 13
         THEN <<10>> \o TextDecode(IF Len(bs) >= 2 /\ bs[2] = 10
                                   THEN Tail(Tail(bs)) ELSE Tail(bs))
         ELSE <<Head(bs)>> \o TextDecode(Tail(bs))

(* What communicate() returns for the streams of the process: the data read
   from a stream given to Popen as PIPE, as text when Popen was given
   text=True; None for any other stream *)
Captured(pr, th, txt, cap) ==
    [output |-> IF pr.out = "PIPE"
                THEN DataV(IF txt THEN TextDecode(th.outbuf) ELSE th.outbuf)
                ELSE NoneV,
     error |-> IF pr.err = "PIPE"
               THEN DataV(IF txt THEN TextDecode(th.errbuf) ELSE th.errbuf)
               ELSE NoneV,
     assigned |-> IF cap.assigned < 2 THEN cap.assigned + 1 ELSE 2]

(* communicate() writes the input to the process's stdin as the pipe takes
   it and closes stdin after the last byte; a process that has exited leaves
   a broken pipe, which communicate() ignores *)
CommWrite(t) ==
    /\ threads[t].pc = "communicate"
    /\ threads[t].input # <<>>
    /\ LET pr == procs[threads[t].target]
           x == pr.stdinPipe
       IN  IF x = 0 \/ pr.state = "exited"
           THEN /\ threads' = [threads EXCEPT ![t].input = <<>>]
                /\ pipes' = CloseStdin(pipes, pr)
           ELSE /\ Len(pipes[x].buf) < PipeCap
                /\ threads' = [threads EXCEPT ![t].input = Tail(@)]
                /\ pipes' = IF Tail(threads[t].input) = <<>>
                            THEN CloseStdin(
                                   [pipes EXCEPT ![x].buf =
                                       Append(@, Head(threads[t].input))], pr)
                            ELSE [pipes EXCEPT ![x].buf =
                                       Append(@, Head(threads[t].input))]
    /\ ret' = NoRet
    /\ UNCHANGED <<impl, pstdin, pstdout, pstderr, commands, procs, curthread, caller,
                   capture, payload, indata, text, files, obs, lock, peek, env>>

(* communicate() reads whatever the process's stdout and stderr pipes hold *)
CommRead(t) ==
    /\ threads[t].pc = "communicate"
    /\ LET pr == procs[threads[t].target]
       IN  \/ /\ pr.stdout # 0
              /\ pipes[pr.stdout].buf # <<>>
              /\ threads' = [threads EXCEPT
                               ![t].outbuf = Append(@, Head(pipes[pr.stdout].buf))]
              /\ pipes' = [pipes EXCEPT ![pr.stdout].buf = Tail(@)]
           \/ /\ pr.stderr # 0
              /\ pipes[pr.stderr].buf # <<>>
              /\ threads' = [threads EXCEPT
                               ![t].errbuf = Append(@, Head(pipes[pr.stderr].buf))]
              /\ pipes' = [pipes EXCEPT ![pr.stderr].buf = Tail(@)]
    /\ ret' = NoRet
    /\ UNCHANGED <<impl, pstdin, pstdout, pstderr, commands, procs, curthread, caller,
                   capture, payload, indata, text, files, obs, lock, peek, env>>

(* subpipe.py lines 172-174: communicate() on the last command's process
   returns once that process has exited and its streams are at end of file;
   it closes the parent's ends of that process's pipes *)
Communicate(t) ==
    /\ threads[t].pc = "communicate"
    /\ LET p == threads[t].target
       IN  /\ procs[p].state = "exited"
           /\ \A x \in {procs[p].stdout, procs[p].stderr} \ {0} :
                 pipes[x].buf = <<>>
           /\ procs' = [procs EXCEPT ![p] = Polled(procs[p])]
           /\ pipes' = [x \in DOMAIN pipes |->
                          IF x \in {procs[p].stdout, procs[p].stderr,
                                    procs[p].stdinPipe}
                          THEN [pipes[x] EXCEPT !.parentRead = FALSE,
                                                !.parentWrite = FALSE]
                          ELSE pipes[x]]
           /\ capture' = Captured(procs[p], threads[t], text, capture)
    /\ threads' = [threads EXCEPT ![t].pc = "done"]
    /\ ret' = NoRet
    /\ UNCHANGED <<impl, pstdin, pstdout, pstderr, commands, curthread, caller, payload,
                   indata, text, files, obs, lock, peek, env>>

----------------------------------------------------------------------------
(* The spawned programs.  A process exits on its own with a normal status,
   or, once a signal has been delivered to it, with minus the signal number
   (the value Popen reports for a process ended by a signal). *)
ProcExit(p, c) ==
    /\ procs[p].state = "running"
    /\ c \in NormalExits \/ (procs[p].signalled # 0 /\ c = -procs[p].signalled)
    /\ procs' = [procs EXCEPT ![p].state = "exited", ![p].code = c,
                               ![p].signalled = 0]
    /\ ret' = NoRet
    /\ UNCHANGED <<impl, pstdin, pstdout, pstderr, commands, pipes, threads,
                   curthread, caller, capture, payload,
                   indata, text, files, obs, lock, peek, env>>

----------------------------------------------------------------------------
(* Queries and signals *)

(* The processes a loop over self.commands finds: item.subproc where set *)
Handles(cs) == {cs[x].subproc : x \in DOMAIN cs} \ {0}

(* pipeline.py is_running, lines 239-247: poll each command's process in
   order and stop at the first that has not exited *)
FirstRunning(cs, ps) ==
    LET live == {x \in DOMAIN cs :
                    cs[x].subproc # 0 /\ ps[cs[x].subproc].state = "running"}
    IN  IF live = {} THEN 0 ELSE CHOOSE x \in live : \A y \in live : x <= y

PipelineIsRunning(cs, ps) == FirstRunning(cs, ps) # 0

(* A thread that counts as alive until it has run to its end, also after an
   exception has ended it *)
ThreadAliveUnlessDone(ths, t) == t # 0 /\ ths[t].pc # "done"

(* subpipe.py is_running, lines 250-255: the thread exists and is alive *)
ThreadAlive(ths, t) == t # 0 /\ ths[t].pc \in {"spawn", "communicate"}

IsRunningValue ==
    IF impl = "pipeline" THEN PipelineIsRunning(commands, procs)
    ELSE ThreadAlive(threads, curthread)

(* the processes is_running of pipeline.py has polled *)
PolledByIsRunning(cs, ps) ==
    LET f == FirstRunning(cs, ps)
    IN  {cs[x].subproc : x \in {y \in DOMAIN cs : f = 0 \/ y < f}} \ {0}

CallAllowed == caller.pc = "idle"

is_running ==
    /\ CallAllowed
    /\ ret' = [NoRet EXCEPT !.op = "is_running", !.val = IsRunningValue]
    /\ procs' = IF impl = "pipeline"
                THEN [p \in DOMAIN procs |->
                        IF p \in PolledByIsRunning(commands, procs)
                        THEN Polled(procs[p]) ELSE procs[p]]
                ELSE procs
    /\ UNCHANGED <<impl, pstdin, pstdout, pstderr, commands, pipes, threads,
                   curthread, caller, capture, payload,
                   indata, text, files, obs, lock, peek, env>>

(* A poll that reports a command without a process as None *)
PollEntryNone(item, ps) ==
    IF item.subproc # 0 THEN Polled(ps[item.subproc]).returncode ELSE NoneV

(* pipeline.py poll, lines 257-265 *)
PollEntry(item, ps) ==
    IF item.subproc # 0 THEN Polled(ps[item.subproc]).returncode ELSE FalseV

PollValue(cs, ps) == [x \in DOMAIN cs |-> PollEntry(cs[x], ps)]

poll ==
    /\ impl = "pipeline"
    /\ CallAllowed
    /\ ret' = [NoRet EXCEPT !.op = "poll", !.val = PollValue(commands, procs)]
    /\ procs' = [p \in DOMAIN procs |->
                   IF p \in Handles(commands) THEN Polled(procs[p])
                   ELSE procs[p]]
    /\ UNCHANGED <<impl, pstdin, pstdout, pstderr, commands, pipes, threads,
                   curthread, caller, capture, payload,
                   indata, text, files, obs, lock, peek, env>>

(* Popen.send_signal: poll first, deliver only if no exit status is known *)
Signalled(pr, sig) ==
    IF pr.state = "running" THEN [pr EXCEPT !.signalled = sig] ELSE Polled(pr)

(* send_signal / terminate / kill: pipeline.py lines 290-304, subpipe.py
   lines 288-302 *)
send_signal(sig) ==
    /\ CallAllowed
    /\ procs' = [p \in DOMAIN procs |->
                   IF p \in Handles(commands) THEN Signalled(procs[p], sig)
                   ELSE procs[p]]
    /\ ret' = [NoRet EXCEPT !.op = "send_signal"]
    /\ UNCHANGED <<impl, pstdin, pstdout, pstderr, commands, pipes, threads,
                   curthread, caller, capture, payload,
                   indata, text, files, obs, lock, peek, env>>

----------------------------------------------------------------------------
(* wait.  given: whether a timeout was passed. *)
wait_call(given) ==
    /\ caller.pc = "idle"
    /\ caller' = [pc |-> "wait", i |-> 1, res |-> <<>>, timeout |-> given,
                  total |-> 0, item |-> 0, sig |-> 0, target |-> 0]
    /\ ret' = NoRet
    /\ UNCHANGED <<impl, pstdin, pstdout, pstderr, commands, procs, pipes, threads,
                   curthread, capture, payload,
                   indata, text, files, obs, lock, peek, env>>

(* A wait that reads the returncode attribute instead of waiting *)
WaitEntryCached(item, ps) ==
    IF item.subproc # 0 THEN ps[item.subproc].returncode ELSE FalseV

(* pipeline.py wait, lines 277-282, one command per step:
   item.subproc.wait(timeout) returns the exit status once the process has
   exited; False stands for a command without a process *)
WaitEntry(item, ps) ==
    IF item.subproc # 0 THEN IntV(ps[item.subproc].code) ELSE FalseV

WaitItem ==
    /\ impl = "pipeline"
    /\ caller.pc = "wait"
    /\ caller.i <= Len(commands)
    /\ LET item == commands[caller.i]
       IN  /\ item.subproc # 0 => procs[item.subproc].state = "exited"
           /\ caller' = [caller EXCEPT !.i = @ + 1, !.item = 0,
                                       !.res = Append(@, WaitEntry(item, procs))]
           /\ procs' = IF item.subproc # 0
                       THEN [procs EXCEPT ![item.subproc] = Polled(@)]
                       ELSE procs
    /\ ret' = NoRet
    /\ UNCHANGED <<impl, pstdin, pstdout, pstderr, commands, pipes, threads,
                   curthread, capture, payload,
                   indata, text, files, obs, lock, peek, env>>

(* Popen.wait(timeout) raises TimeoutExpired when the timeout elapses while
   the process is still running *)
WaitTimeout ==
    /\ impl = "pipeline"
    /\ caller.pc = "wait"
    /\ caller.timeout
    /\ caller.i <= Len(commands)
    /\ commands[caller.i].subproc # 0
    /\ procs[commands[caller.i].subproc].state = "running"
    /\ caller' = Idle
    /\ ret' = [NoRet EXCEPT !.op = "wait", !.exc = "TimeoutExpired"]
    /\ UNCHANGED <<impl, pstdin, pstdout, pstderr, commands, procs, pipes, threads,
                   curthread, capture, payload,
                   indata, text, files, obs, lock, peek, env>>

(* pipeline.py wait, line 284 *)
WaitReturn ==
    /\ impl = "pipeline"
    /\ caller.pc = "wait"
    /\ caller.i > Len(commands)
    /\ caller' = Idle
    /\ ret' = [NoRet EXCEPT !.op = "wait", !.val = caller.res]
    /\ UNCHANGED <<impl, pstdin, pstdout, pstderr, commands, procs, pipes, threads,
                   curthread, capture, payload,
                   indata, text, files, obs, lock, peek, env>>

(* subpipe.py wait, lines 266-286.  The loop ends when is_running() is
   false; then commands[-1] is read (IndexError on an empty list) and the
   exit status is the returncode attribute of its process, None without a
   process. *)
SubWaitCode(cs, ps) ==
    IF Last(cs).subproc # 0 THEN ps[Last(cs).subproc].returncode ELSE NoneV

SubWaitReturn ==
    /\ impl = "subpipe"
    /\ caller.pc = "wait"
    /\ ~ThreadAlive(threads, curthread)
    /\ caller' = Idle
    /\ ret' = IF Len(commands) = 0
              THEN [NoRet EXCEPT !.op = "wait", !.exc = "IndexError"]
              ELSE [NoRet EXCEPT !.op = "wait",
                       !.val = [code |-> SubWaitCode(commands, procs),
                                output |-> capture.output,
                                error |-> capture.error]]
    /\ UNCHANGED <<impl, pstdin, pstdout, pstderr, commands, procs, pipes, threads,
                   curthread, capture, payload,
                   indata, text, files, obs, lock, peek, env>>

(* subpipe.py wait, lines 269-271: the timeout has elapsed while the thread
   is alive; the name TimeoutExpired is not defined in subpipe.py, so the
   raise statement raises NameError *)
SubWaitTimeout ==
    /\ impl = "subpipe"
    /\ caller.pc = "wait"
    /\ caller.timeout
    /\ ThreadAlive(threads, curthread)
    /\ caller' = Idle
    /\ ret' = [NoRet EXCEPT !.op = "wait", !.exc = "NameError"]
    /\ UNCHANGED <<impl, pstdin, pstdout, pstderr, commands, procs, pipes, threads,
                   curthread, capture, payload,
                   indata, text, files, obs, lock, peek, env>>

----------------------------------------------------------------------------
(* The pipe modes appended under Spec: one that forwards stdout and one that
   forwards stderr.  SpecWiring appends every mode. *)
QueryModes == {"PIPE_STDOUT", "PIPE_STDERR"}

Next ==
    \/ \E m \in QueryModes, ex \in BOOLEAN : append(m, ex, NoArg, NoArg)
    \/ launch
    \/ \E t \in DOMAIN threads : SpawnStage(t)
    \/ \E t \in DOMAIN threads : LoopExit(t)
    \/ \E t \in DOMAIN threads : Communicate(t)
    \/ \E p \in DOMAIN procs, c \in NormalExits \cup {-SIGTERM} : ProcExit(p, c)
    \/ is_running
    \/ poll
    \/ send_signal(SIGTERM)
    \/ \E given \in BOOLEAN : wait_call(given)
    \/ WaitItem
    \/ WaitTimeout
    \/ WaitReturn
    \/ SubWaitReturn
    \/ SubWaitTimeout

Spec == Init /\ [][Next]_vars

(* pipeline.py alone *)
InitPipeline == Init /\ impl = "pipeline"

NextPipeline ==
    \/ \E m \in QueryModes, ex \in BOOLEAN : append(m, ex, NoArg, NoArg)
    \/ launch
    \/ \E t \in DOMAIN threads : SpawnStage(t)
    \/ \E t \in DOMAIN threads : LoopExit(t)
    \/ \E p \in DOMAIN procs, c \in NormalExits \cup {-SIGTERM} : ProcExit(p, c)
    \/ is_running
    \/ poll
    \/ send_signal(SIGTERM)
    \/ \E given \in BOOLEAN : wait_call(given)
    \/ WaitItem
    \/ WaitTimeout
    \/ WaitReturn

SpecPipeline == InitPipeline /\ [][NextPipeline]_vars

(* The launch sequence alone, with every pipe mode *)
NextWiring ==
    \/ \E m \in PipeModes, ex \in BOOLEAN : append(m, ex, NoArg, NoArg)
    \/ launch
    \/ \E t \in DOMAIN threads : SpawnStage(t)
    \/ \E t \in DOMAIN threads : LoopExit(t)
    \/ \E t \in DOMAIN threads : Communicate(t)
    \/ \E p \in DOMAIN procs, c \in NormalExits : ProcExit(p, c)

SpecWiring == Init /\ [][NextWiring]_vars

----------------------------------------------------------------------------
(* Data flow through a two-stage pipeline producer | consumer.  The first
   stage's program writes payload bytes to its forwarded stream and exits;
   the second stage's program reads its standard input to end of file and
   exits.  A pipe holds at most PipeCap bytes: a write to a full pipe
   blocks, a read from an empty pipe blocks while a write end is open.
   Popen closes the parent's copy of the write end and starts the child with
   close_fds, so the only write end of a stage's pipe is that stage's. *)

(* The pipe modes that forward stdout, as the shell's | does *)
StdoutModes == {"PIPE_STDOUT", "PIPE_BOTH", "PIPE_STDOUT_QUIET"}

InitFlow == InitObject /\ payload \in (PipeCap + 1)..MaxBytes

Writers(x) ==
    {p \in DOMAIN procs : procs[p].state = "running"
                          /\ x \in {procs[p].stdout, procs[p].stderr}}

Readers(x) ==
    {p \in DOMAIN procs : procs[p].state = "running"
                          /\ procs[p].stdin = [kind |-> "pipe", id |-> x]}

(* One write(2) of one byte by the producer.  Without a pipe on the stream
   the byte goes to the inherited stream, a file or /dev/null.  On a pipe
   with no read end left the process is ended by SIGPIPE (signal 13). *)
ProducerWrite(p) ==
    /\ procs[p].stage = 1
    /\ procs[p].state = "running"
    /\ procs[p].left > 0
    /\ LET x == FwdPipe(procs[p])
       IN  IF x = 0
           THEN /\ procs' = [procs EXCEPT ![p].left = @ - 1]
                /\ UNCHANGED pipes
           ELSE IF ~pipes[x].parentRead /\ Readers(x) = {}
           THEN /\ procs' = [procs EXCEPT ![p].state = "exited",
                                          ![p].code = -13]
                /\ UNCHANGED pipes
           ELSE /\ Len(pipes[x].buf) < PipeCap
                /\ pipes' = [pipes EXCEPT ![x].buf = Append(@, 97)]
                /\ procs' = [procs EXCEPT ![p].left = @ - 1]
    /\ ret' = NoRet
    /\ UNCHANGED <<impl, pstdin, pstdout, pstderr, commands, threads, curthread,
                   caller, capture, payload,
                   indata, text, files, obs, lock, peek, env>>

ProducerExit(p) ==
    /\ procs[p].stage = 1
    /\ procs[p].state = "running"
    /\ procs[p].left = 0
    /\ procs' = [procs EXCEPT ![p].state = "exited", ![p].code = 0]
    /\ ret' = NoRet
    /\ UNCHANGED <<impl, pstdin, pstdout, pstderr, commands, pipes, threads,
                   curthread, caller, capture, payload,
                   indata, text, files, obs, lock, peek, env>>

(* One read(2) of one byte by the consumer from its standard input *)
ConsumerRead(p) ==
    /\ procs[p].stage = 2
    /\ procs[p].state = "running"
    /\ procs[p].stdin.kind = "pipe"
    /\ pipes[procs[p].stdin.id].buf # <<>>
    /\ pipes' = [pipes EXCEPT ![procs[p].stdin.id].buf = Tail(@)]
    /\ ret' = NoRet
    /\ UNCHANGED <<impl, pstdin, pstdout, pstderr, commands, procs, threads,
                   curthread, caller, capture, payload,
                   indata, text, files, obs, lock, peek, env>>

(* End of file: the pipe is empty and no write end is open.  An inherited
   standard input is outside the pipeline and may end at any time. *)
ConsumerExit(p) ==
    /\ procs[p].stage = 2
    /\ procs[p].state = "running"
    /\ procs[p].stdin.kind = "pipe"
          => (pipes[procs[p].stdin.id].buf = <<>>
              /\ Writers(procs[p].stdin.id) = {}
              /\ ~pipes[procs[p].stdin.id].parentWrite)
    /\ procs' = [procs EXCEPT ![p].state = "exited", ![p].code = 0]
    /\ ret' = NoRet
    /\ UNCHANGED <<impl, pstdin, pstdout, pstderr, commands, pipes, threads,
                   curthread, caller, capture, payload,
                   indata, text, files, obs, lock, peek, env>>

(* The caller builds the two-stage pipeline and launches it once *)
BuildFlow ==
    /\ threads = <<>>
    /\ Len(commands) < 2
    /\ \E m \in StdoutModes : append(m, TRUE, NoArg, NoArg)

LaunchFlow ==
    /\ threads = <<>>
    /\ Len(commands) = 2
    /\ launch

ThreadStep ==
    \E t \in DOMAIN threads : SpawnStage(t) \/ LoopExit(t) \/ Communicate(t)

ProducerStep == \E p \in DOMAIN procs : ProducerWrite(p) \/ ProducerExit(p)

ConsumerStep == \E p \in DOMAIN procs : ConsumerRead(p) \/ ConsumerExit(p)

NextFlow ==
    \/ BuildFlow
    \/ LaunchFlow
    \/ ThreadStep
    \/ ProducerStep
    \/ ConsumerStep

(* The thread that runs the launch sequence and the two processes are
   scheduled fairly *)
SpecFlow ==
    /\ InitFlow
    /\ [][NextFlow]_vars
    /\ WF_vars(ThreadStep)
    /\ WF_vars(ProducerStep)
    /\ WF_vars(ConsumerStep)

----------------------------------------------------------------------------
(* send_signal / terminate / kill, one step per system call.  The loop
   `for item in self.commands: if item.subproc: item.subproc.send_signal(sig)`
   calls Popen.send_signal, which polls the process, returns if an exit
   status is known, and otherwise calls os.kill, suppressing
   ProcessLookupError.  caller.res records, for the properties, the
   processes of the pipeline that were running (live) and that had exited
   (dead) when the call began, those os.kill reached running (killed) and
   those that had exited between the poll and os.kill (raced). *)
Running(ps) == {p \in DOMAIN ps : ps[p].state = "running"}

send_signal_call(sig) ==
    /\ caller.pc = "idle"
    /\ caller' = [Idle EXCEPT
                    !.pc = "signal", !.i = 1, !.sig = sig,
                    !.res = [live |-> Handles(commands) \cap Running(procs),
                             dead |-> Handles(commands) \ Running(procs),
                             killed |-> {}, raced |-> {}]]
    /\ ret' = NoRet
    /\ UNCHANGED <<impl, pstdin, pstdout, pstderr, commands, procs, pipes, threads,
                   curthread, capture, payload,
                   indata, text, files, obs, lock, peek, env>>

(* A loop that stops at the first process found to have exited *)
AfterExitedBreak(cs, i) == Len(cs) + 1

(* The command the for loop goes on with after one whose process is found
   to have exited: the next one *)
AfterExited(cs, i) == i + 1

(* The loop header, `if item.subproc:`, and the poll and returncode test of
   Popen.send_signal *)
SendSignalPoll ==
    /\ caller.pc = "signal"
    /\ caller.i <= Len(commands)
    /\ LET p == commands[caller.i].subproc
       IN  IF p = 0
           THEN /\ caller' = [caller EXCEPT !.i = @ + 1]
                /\ UNCHANGED procs
           ELSE /\ procs' = [procs EXCEPT ![p] = Polled(@)]
                /\ caller' = IF procs[p].state = "exited"
                             THEN [caller EXCEPT
                                     !.i = AfterExited(commands, caller.i)]
                             ELSE [caller EXCEPT !.pc = "kill", !.target = p]
    /\ ret' = NoRet
    /\ UNCHANGED <<impl, pstdin, pstdout, pstderr, commands, pipes, threads,
                   curthread, capture, payload,
                   indata, text, files, obs, lock, peek, env>>

(* A signal that is never delivered *)
KillDropped(pr, sig) == pr

(* os.kill(pid, sig): a running process receives the signal; on a process
   that has exited meanwhile (a zombie until Popen reaps it) it has no
   effect *)
KillDelivered(pr, sig) ==
    IF pr.state = "running" THEN [pr EXCEPT !.signalled = sig] ELSE pr

SendSignalKill ==
    /\ caller.pc = "kill"
    /\ LET p == caller.target
       IN  /\ procs' = [procs EXCEPT ![p] = KillDelivered(@, caller.sig)]
           /\ caller' = [caller EXCEPT
                           !.pc = "signal", !.i = @ + 1, !.target = 0,
                           !.res = IF procs[p].state = "running"
                                   THEN [@ EXCEPT !.killed = @ \cup {p}]
                                   ELSE [@ EXCEPT !.raced = @ \cup {p}]]
    /\ ret' = NoRet
    /\ UNCHANGED <<impl, pstdin, pstdout, pstderr, commands, pipes, threads,
                   curthread, capture, payload,
                   indata, text, files, obs, lock, peek, env>>

SendSignalReturn ==
    /\ caller.pc = "signal"
    /\ caller.i > Len(commands)
    /\ caller' = Idle
    /\ ret' = [NoRet EXCEPT !.op = "send_signal",
                            !.val = [sig |-> caller.sig] @@ caller.res]
    /\ UNCHANGED <<impl, pstdin, pstdout, pstderr, commands, procs, pipes, threads,
                   curthread, capture, payload,
                   indata, text, files, obs, lock, peek, env>>

(* The pipeline is launched once *)
LaunchOnce == threads = <<>> /\ launch

NextSignal ==
    \/ \E ex \in BOOLEAN : append("PIPE_STDOUT", ex, NoArg, NoArg)
    \/ LaunchOnce
    \/ \E t \in DOMAIN threads : SpawnStage(t)
    \/ \E t \in DOMAIN threads : LoopExit(t)
    \/ \E t \in DOMAIN threads : Communicate(t)
    \/ \E p \in DOMAIN procs, c \in {0, -SIGTERM, -SIGKILL} : ProcExit(p, c)
    \/ \E sig \in {SIGTERM, SIGKILL} : send_signal_call(sig)
    \/ SendSignalPoll
    \/ SendSignalKill
    \/ SendSignalReturn

SpecSignal == Init /\ [][NextSignal]_vars

(* The same calls with fair scheduling: a broadcast that has begun goes on to
   its end, the thread that runs the launch sequence keeps running, and a
   process that has received a signal is ended by it.  A process that has
   received none may run for ever, and nothing makes the caller call
   again. *)
SpecStop ==
    /\ SpecSignal
    /\ WF_vars(SendSignalPoll \/ SendSignalKill \/ SendSignalReturn)
    /\ WF_vars(\E t \in DOMAIN threads :
                   SpawnStage(t) \/ LoopExit(t) \/ Communicate(t))
    /\ WF_vars(\E p \in DOMAIN procs :
                   procs[p].signalled # 0 /\ ProcExit(p, -procs[p].signalled))

(* wait() without timeout, called at any time on a pipeline that is
   launched once or never, some of whose commands cannot be executed.
   Scheduling is fair: a wait() that can go on does, the thread that runs
   the launch sequence keeps running, and every process exits in the end. *)
NextWait ==
    \/ \E m \in QueryModes, ex \in BOOLEAN : append(m, ex, NoArg, NoArg)
    \/ LaunchOnce
    \/ \E t \in DOMAIN threads : SpawnStage(t)
    \/ \E t \in DOMAIN threads : LoopExit(t)
    \/ \E t \in DOMAIN threads : Communicate(t)
    \/ \E p \in DOMAIN procs : ProcExit(p, 0)
    \/ wait_call(FALSE)
    \/ WaitItem
    \/ WaitReturn
    \/ SubWaitReturn

SpecWait ==
    /\ Init
    /\ [][NextWait]_vars
    /\ WF_vars(WaitItem \/ WaitReturn \/ SubWaitReturn)
    /\ WF_vars(\E t \in DOMAIN threads :
                   SpawnStage(t) \/ LoopExit(t) \/ Communicate(t))
    /\ WF_vars(\E p \in DOMAIN procs : ProcExit(p, 0))

----------------------------------------------------------------------------
(* terminate() followed by wait() on a long-running single-stage pipeline:
   the caller appends one command, launches, calls terminate() once the
   stage is running, then calls wait().  The program never exits on its own;
   it does not ignore SIGTERM. *)
BuildTerm ==
    /\ commands = <<>>
    /\ threads = <<>>
    /\ \E m \in PipeModes : append(m, TRUE, NoArg, NoArg)

LaunchTerm == Len(commands) = 1 /\ LaunchOnce

TerminateCall ==
    /\ Handles(commands) # {}
    /\ \A p \in Handles(commands) :
          procs[p].state = "running" /\ procs[p].signalled = 0
    /\ send_signal_call(SIGTERM)

WaitAfterTerminate ==
    /\ Handles(commands) # {}
    /\ \A p \in Handles(commands) :
          procs[p].state = "exited" \/ procs[p].signalled # 0
    /\ wait_call(FALSE)

CallerStep ==
    \/ BuildTerm
    \/ LaunchTerm
    \/ TerminateCall
    \/ SendSignalPoll
    \/ SendSignalKill
    \/ SendSignalReturn
    \/ WaitAfterTerminate
    \/ WaitItem
    \/ WaitReturn
    \/ SubWaitReturn

(* A process that has received a signal is ended by it *)
SignalledExit ==
    \E p \in DOMAIN procs :
        procs[p].signalled # 0 /\ ProcExit(p, -procs[p].signalled)

NextTerm ==
    \/ CallerStep
    \/ ThreadStep
    \/ SignalledExit

(* The caller, the thread that runs the launch sequence and the process are
   scheduled fairly *)
SpecTerm ==
    /\ Init
    /\ [][NextTerm]_vars
    /\ WF_vars(CallerStep)
    /\ WF_vars(ThreadStep)
    /\ WF_vars(SignalledExit)

----------------------------------------------------------------------------
(* wait(timeout) against a clock.  Time passes only while wait is blocked:
   pipeline.py is inside item.subproc.wait(timeout), which raises
   TimeoutExpired once timeout has elapsed since THAT call began; subpipe.py
   sleeps SLEEP_TIME (one tick) between two tests of
   time.time() - start >= timeout, start being taken once on entry. *)
Tick ==
    /\ caller.pc = "wait"
    /\ caller.timeout
    /\ IF impl = "pipeline"
       THEN /\ caller.i <= Len(commands)
            /\ commands[caller.i].subproc # 0
            /\ procs[commands[caller.i].subproc].state = "running"
            /\ caller.item < TimeoutTicks
       ELSE /\ ThreadAlive(threads, curthread)
            /\ caller.total < TimeoutTicks
    /\ caller' = [caller EXCEPT !.total = @ + 1, !.item = @ + 1]
    /\ ret' = NoRet
    /\ UNCHANGED <<impl, pstdin, pstdout, pstderr, commands, procs, pipes, threads,
                   curthread, capture, payload,
                   indata, text, files, obs, lock, peek, env>>

(* Popen.wait(timeout) raises when its own timeout has elapsed *)
TimedWaitTimeout == caller.item >= TimeoutTicks /\ WaitTimeout

(* subpipe.py wait, line 270: (time.time() - start) >= timeout *)
TimedSubWaitTimeout == caller.total >= TimeoutTicks /\ SubWaitTimeout

NextTimed ==
    \/ \E m \in StdoutModes : append(m, TRUE, NoArg, NoArg)
    \/ launch
    \/ \E t \in DOMAIN threads : SpawnStage(t)
    \/ \E t \in DOMAIN threads : LoopExit(t)
    \/ \E t \in DOMAIN threads : Communicate(t)
    \/ \E p \in DOMAIN procs : ProcExit(p, 0)
    \/ wait_call(TRUE)
    \/ Tick
    \/ WaitItem
    \/ TimedWaitTimeout
    \/ WaitReturn
    \/ SubWaitReturn
    \/ TimedSubWaitTimeout

SpecTimed == Init /\ [][NextTimed]_vars

----------------------------------------------------------------------------
(* Data through the pipeline.  Each stage runs a filter in the manner of tr:
   it reads its standard input a byte at a time, writes the translated byte
   to its standard output and a "!" (33) to its standard error, in either order,
   and exits with code 0 at end of input.  The input payload is longer than
   a pipe holds. *)

(* The characters of the payload: a letter and a carriage return *)
Chars == {97, 13}

Inputs ==
    UNION {[1..n -> Chars] : n \in (PipeCap + 1)..MaxBytes}

(* The filter of stage k translates printable bytes and passes control
   bytes on *)
Transform(k, b) == IF b >= 32 THEN b + k ELSE b

RECURSIVE TransformAll(_, _)
TransformAll(k, bs) ==
    IF bs = <<>> THEN <<>>
    ELSE <<Transform(k, Head(bs))>> \o TransformAll(k, Tail(bs))

(* Pipeline(indata=..., stdout=PIPE, stderr=None or PIPE).  pipeline.py
   lines 113-123 write indata to the temporary file in __init__; it has no
   text parameter and reads and writes bytes. *)
InitData ==
    /\ impl \in Impls
    /\ \E si \in {"PIPE", "DEVNULL"} :
          pstdin = IF impl = "pipeline" THEN "None" ELSE si
    /\ pstdout = IF impl = "pipeline" THEN ResolveStream("PIPE") ELSE "PIPE"
    /\ \E se \in {"None", "PIPE"} :
          pstderr = IF impl = "pipeline" THEN ResolveStream(se) ELSE se
    /\ commands = <<>>
    /\ procs = <<>>
    /\ pipes = <<>>
    /\ threads = <<>>
    /\ curthread = 0
    /\ caller = Idle
    /\ capture = NoCapture
    /\ indata \in Inputs
    /\ text \in (IF impl = "pipeline" THEN {FALSE} ELSE BOOLEAN)
    /\ files = IF impl = "pipeline"
               THEN [NoFiles EXCEPT !.stdin = [data |-> Utf8(indata),
                                               pos |-> 0]]
               ELSE NoFiles
    /\ Unused
    /\ env = [base |-> NoArg, export |-> NoArg]
    /\ ret = NoRet
    /\ payload = 0

(* Whether a read of the process's standard input would report end of file *)
StdinAtEof(pr) ==
    CASE pr.stdin.kind = "pipe" ->
            /\ pipes[pr.stdin.id].buf = <<>>
            /\ Writers(pr.stdin.id) = {}
            /\ ~pipes[pr.stdin.id].parentWrite
      [] pr.stdin.kind = "file" -> files.stdin.pos >= Len(files.stdin.data)
      [] OTHER -> TRUE

(* One read(2) of one byte; the filter then has two writes to do *)
FilterRead(p) ==
    /\ procs[p].state = "running"
    /\ procs[p].pend = <<>>
    /\ \E b \in 0..255 :
          /\ CASE procs[p].stdin.kind = "pipe" ->
                     /\ pipes[procs[p].stdin.id].buf # <<>>
                     /\ b = Head(pipes[procs[p].stdin.id].buf)
                     /\ pipes' = [pipes EXCEPT ![procs[p].stdin.id].buf =
                                                  Tail(@)]
                     /\ UNCHANGED files
               [] procs[p].stdin.kind = "file" ->
                     /\ files.stdin.pos < Len(files.stdin.data)
                     /\ b = files.stdin.data[files.stdin.pos + 1]
                     /\ files' = [files EXCEPT !.stdin.pos = @ + 1]
                     /\ UNCHANGED pipes
               [] OTHER -> FALSE
          /\ \E first \in {"out", "err"} :
                procs' = [procs EXCEPT ![p].pend =
                    IF first = "out"
                    THEN <<[s |-> "out", b |-> Transform(procs[p].stage, b)],
                           [s |-> "err", b |-> 33]>>
                    ELSE <<[s |-> "err", b |-> 33],
                           [s |-> "out", b |-> Transform(procs[p].stage, b)]>>]
    /\ ret' = NoRet
    /\ UNCHANGED <<impl, pstdin, pstdout, pstderr, commands, threads, curthread,
                   caller, capture, payload, indata, text, obs, lock, peek, env>>

(* Where a write to the process's stream s goes: a pipe, one of the
   temporary files, or nowhere that is kept (inherited stream, /dev/null).
   stderr=STDOUT sends standard error wherever standard output goes. *)
Sink(pr, s) ==
    LET so == IF pr.out = "PIPE" THEN [kind |-> "pipe", id |-> pr.stdout]
              ELSE IF pr.out = "FILE" THEN [kind |-> "stdout", id |-> 0]
              ELSE [kind |-> "drop", id |-> 0]
    IN  IF s = "out" \/ pr.err = "STDOUT" THEN so
        ELSE IF pr.err = "PIPE" THEN [kind |-> "pipe", id |-> pr.stderr]
        ELSE IF pr.err = "FILE" THEN [kind |-> "stderr", id |-> 0]
        ELSE [kind |-> "drop", id |-> 0]

(* The process's record once the write at the head of pend is done *)
Written(pr) ==
    [pr EXCEPT !.pend = Tail(@),
               !.wrote = IF Head(pr.pend).s = "out"
                         THEN Append(@, Head(pr.pend).b) ELSE @,
               !.wroteErr = IF Head(pr.pend).s = "err"
                            THEN Append(@, Head(pr.pend).b) ELSE @]

(* One write(2) of one byte.  A write to a full pipe blocks; a write to a
   pipe with no read end left ends the process by SIGPIPE (signal 13); a
   write to a file appends. *)
FilterWrite(p) ==
    /\ procs[p].state = "running"
    /\ procs[p].pend # <<>>
    /\ LET w == Head(procs[p].pend)
           k == Sink(procs[p], w.s)
       IN  CASE k.kind = "pipe" ->
                  IF ~pipes[k.id].parentRead /\ Readers(k.id) = {}
                  THEN /\ procs' = [procs EXCEPT ![p].state = "exited",
                                                 ![p].code = -13,
                                                 ![p].pend = <<>>]
                       /\ UNCHANGED <<pipes, files>>
                  ELSE /\ Len(pipes[k.id].buf) < PipeCap
                       /\ pipes' = [pipes EXCEPT ![k.id].buf = Append(@, w.b)]
                       /\ procs' = [procs EXCEPT ![p] = Written(@)]
                       /\ UNCHANGED files
             [] k.kind = "stdout" ->
                  /\ files' = [files EXCEPT !.stdout = Append(@, w.b)]
                  /\ procs' = [procs EXCEPT ![p] = Written(@)]
                  /\ UNCHANGED pipes
             [] k.kind = "stderr" ->
                  /\ files' = [files EXCEPT !.stderr = Append(@, w.b)]
                  /\ procs' = [procs EXCEPT ![p] = Written(@)]
                  /\ UNCHANGED pipes
             [] OTHER ->
                  /\ procs' = [procs EXCEPT ![p] = Written(@)]
                  /\ UNCHANGED <<pipes, files>>
    /\ ret' = NoRet
    /\ UNCHANGED <<impl, pstdin, pstdout, pstderr, commands, threads, curthread,
                   caller, capture, payload, indata, text, obs, lock, peek, env>>

(* The filter exits with code 0 at end of input *)
FilterExit(p) ==
    /\ procs[p].state = "running"
    /\ procs[p].pend = <<>>
    /\ StdinAtEof(procs[p])
    /\ procs' = [procs EXCEPT ![p].state = "exited", ![p].code = 0]
    /\ ret' = NoRet
    /\ UNCHANGED <<impl, pstdin, pstdout, pstderr, commands, pipes, threads,
                   curthread, caller, capture, payload, indata, text, files, obs, lock, peek, env>>

(* The pipeline is built with the default pipe mode and launched once *)
BuildData ==
    /\ threads = <<>>
    /\ append("PIPE_STDOUT", TRUE, NoArg, NoArg)

LaunchData ==
    /\ Len(commands) >= 1
    /\ LaunchOnce

DataThreadStep ==
    \E t \in DOMAIN threads :
        \/ SpawnStage(t)
        \/ LoopExit(t)
        \/ CommWrite(t)
        \/ CommRead(t)
        \/ Communicate(t)

FilterStep(p) == FilterRead(p) \/ FilterWrite(p) \/ FilterExit(p)

NextData ==
    \/ BuildData
    \/ LaunchData
    \/ DataThreadStep
    \/ \E p \in DOMAIN procs : FilterStep(p)

(* The thread and every process keep running while they can take a step *)
SpecData ==
    /\ InitData
    /\ [][NextData]_vars
    /\ WF_vars(DataThreadStep)
    /\ \A p \in 1..MaxProcs : WF_vars(p \in DOMAIN procs /\ FilterStep(p))

----------------------------------------------------------------------------
(* poll, is_running and send_signal called from a second thread of the
   calling program, one step per Popen call, while the first thread may be
   inside launch() or wait() and the background thread may be spawning.
   subpipe.py has no poll method. *)
ObsOps == IF impl = "pipeline" THEN {"poll", "is_running", "send_signal"}
          ELSE {"is_running", "send_signal"}

ObsCall(op, sig) ==
    /\ obs.pc = "idle"
    /\ op \in ObsOps
    /\ obs' = [ObsIdle EXCEPT !.pc = "loop", !.op = op, !.i = 1,
                              !.sig = IF op = "send_signal" THEN sig ELSE 0]
    /\ ret' = NoRet
    /\ UNCHANGED <<impl, pstdin, pstdout, pstderr, commands, procs, pipes, threads,
                   curthread, caller, capture, payload, indata, text, files,
                   lock, peek, env>>

(* Popen.wait holds the process's _waitpid_lock while it waits: throughout
   when it has no timeout, on and off when it has one *)
WaitHolds(p) ==
    /\ impl = "pipeline"
    /\ caller.pc = "wait"
    /\ caller.i <= Len(commands)
    /\ commands[caller.i].subproc = p

(* Popen.poll tries the lock without blocking: with the lock it reaps the
   process if it has exited, without it it leaves returncode as it is *)
PollOutcomes(p) ==
    IF WaitHolds(p)
    THEN IF caller.timeout THEN {procs[p], Polled(procs[p])} ELSE {procs[p]}
    ELSE {Polled(procs[p])}

(* A send_signal that lets the error of os.kill through *)
KillErrorRaised(pr) ==
    IF pr.state = "exited" /\ pr.returncode # NoneV
    THEN "ProcessLookupError" ELSE "none"

(* What Popen.send_signal raises when os.kill finds that the process has
   been reaped since the poll: nothing, it suppresses ProcessLookupError *)
KillError(pr) == "none"

(* One iteration of the loop over self.commands; subpipe.py is_running has
   no loop and returns self.thread.is_alive() *)
ObsStep ==
    /\ obs.pc = "loop"
    /\ IF impl = "subpipe" /\ obs.op = "is_running"
       THEN /\ obs' = [ObsIdle EXCEPT !.done = obs.op,
                                      !.val = ThreadAlive(threads, curthread)]
            /\ UNCHANGED procs
       ELSE /\ obs.i <= Len(commands)
            /\ LET p == commands[obs.i].subproc
               IN  IF p = 0
                   THEN /\ obs' = [obs EXCEPT
                                     !.i = @ + 1,
                                     !.val = IF obs.op = "poll"
                                             THEN Append(@, FalseV) ELSE @]
                        /\ UNCHANGED procs
                   ELSE \E pr \in PollOutcomes(p) :
                        /\ procs' = [procs EXCEPT ![p] = pr]
                        /\ obs' =
                             CASE obs.op = "poll" ->
                                    [obs EXCEPT !.i = @ + 1,
                                                !.val = Append(@, pr.returncode)]
                               [] obs.op = "is_running" ->
                                    IF pr.returncode = NoneV
                                    THEN [obs EXCEPT !.i = Len(commands) + 1,
                                                     !.val = <<TRUE>>]
                                    ELSE [obs EXCEPT !.i = @ + 1]
                               [] OTHER ->
                                    IF pr.returncode = NoneV
                                    THEN [obs EXCEPT !.pc = "kill",
                                                     !.target = p]
                                    ELSE [obs EXCEPT !.i = @ + 1]
    /\ ret' = NoRet
    /\ UNCHANGED <<impl, pstdin, pstdout, pstderr, commands, pipes, threads,
                   curthread, caller, capture, payload, indata, text, files,
                   lock, peek, env>>

(* os.kill inside Popen.send_signal *)
ObsKill ==
    /\ obs.pc = "kill"
    /\ LET p == obs.target
       IN  /\ procs' = [procs EXCEPT ![p] = KillDelivered(@, obs.sig)]
           /\ obs' = IF KillError(procs[p]) # "none"
                     THEN [ObsIdle EXCEPT !.done = obs.op,
                                          !.exc = KillError(procs[p])]
                     ELSE [obs EXCEPT !.pc = "loop", !.i = @ + 1,
                                      !.target = 0]
    /\ ret' = NoRet
    /\ UNCHANGED <<impl, pstdin, pstdout, pstderr, commands, pipes, threads,
                   curthread, caller, capture, payload, indata, text, files,
                   lock, peek, env>>

(* The loop is exhausted: the call returns *)
ObsReturn ==
    /\ obs.pc = "loop"
    /\ ~(impl = "subpipe" /\ obs.op = "is_running")
    /\ obs.i > Len(commands)
    /\ obs' = [ObsIdle EXCEPT
                 !.done = obs.op,
                 !.val = IF obs.op = "is_running" /\ obs.val = <<>>
                         THEN <<FALSE>> ELSE obs.val]
    /\ ret' = NoRet
    /\ UNCHANGED <<impl, pstdin, pstdout, pstderr, commands, procs, pipes, threads,
                   curthread, caller, capture, payload, indata, text, files,
                   lock, peek, env>>

ObsProgress == ObsStep \/ ObsKill \/ ObsReturn

NextObs ==
    \/ \E ex \in BOOLEAN : append("PIPE_STDOUT", ex, NoArg, NoArg)
    \/ LaunchOnce
    \/ \E t \in DOMAIN threads : SpawnStage(t)
    \/ \E t \in DOMAIN threads : LoopExit(t)
    \/ \E t \in DOMAIN threads : Communicate(t)
    \/ \E p \in DOMAIN procs, c \in {0, 1, -SIGTERM} : ProcExit(p, c)
    \/ \E given \in BOOLEAN : wait_call(given)
    \/ WaitItem
    \/ WaitTimeout
    \/ WaitReturn
    \/ SubWaitReturn
    \/ SubWaitTimeout
    \/ \E op \in {"poll", "is_running", "send_signal"} : ObsCall(op, SIGTERM)
    \/ ObsStep
    \/ ObsKill
    \/ ObsReturn

SpecObs == Init /\ [][NextObs]_vars

----------------------------------------------------------------------------
(* Environments.  The constructor is given base_env and export, each
   command its own base_env and export, each a dictionary or left at its
   default. *)
Args ==
    {NoArg} \cup {Arg(d) : d \in UNION {[ks -> {1, 2}] :
                                           ks \in SUBSET {"A", "B"}}}

InitEnv ==
    /\ impl \in Impls
    /\ pstdin = IF impl = "pipeline" THEN "None" ELSE "PIPE"
    /\ pstdout = "None"
    /\ pstderr = "None"
    /\ commands = <<>>
    /\ procs = <<>>
    /\ pipes = <<>>
    /\ threads = <<>>
    /\ curthread = 0
    /\ caller = Idle
    /\ capture = NoCapture
    /\ indata = <<>>
    /\ text = TRUE
    /\ files = NoFiles
    /\ Unused
    /\ env \in [base : {NoArg, Arg([k \in {"B"} |-> 0])}, export : Args]
    /\ ret = NoRet
    /\ payload = 0

NextEnv ==
    \E sb \in {NoArg, Arg(EmptyDict)}, se \in Args :
        append("PIPE_STDOUT", TRUE, sb, se)

SpecEnv == InitEnv /\ [][NextEnv]_vars

----------------------------------------------------------------------------
(* The constructor of pipeline.py given file names for stdout and stderr.
   When an open fails the constructor raises: the caller gets the
   exception and no Pipeline object, so has nothing to call a method on. *)
AfterInitUsable(so, se) == Idle

AfterInit(so, se) ==
    IF "UNOPENED" \in {ResolveStream(so), ResolveStream(se)}
    THEN [Idle EXCEPT !.pc = "noobject"] ELSE Idle

InitConfig ==
    /\ impl = "pipeline"
    /\ pstdin = "None"
    /\ \E so, se \in {"None", "PIPE", "PATH", "BADPATH"} :
          /\ pstdout = ResolveStream(so)
          /\ pstderr = IF ResolveStream(so) = "UNOPENED" THEN "None"
                       ELSE ResolveStream(se)
          /\ caller = AfterInit(so, se)
          /\ ret = IF AfterInit(so, se) = Idle THEN NoRet
                   ELSE [NoRet EXCEPT !.op = "__init__", !.exc = "OSError"]
    /\ commands = <<>>
    /\ procs = <<>>
    /\ pipes = <<>>
    /\ threads = <<>>
    /\ curthread = 0
    /\ capture = NoCapture
    /\ indata = <<>>
    /\ text = FALSE
    /\ files = NoFiles
    /\ Unused
    /\ env = [base |-> NoArg, export |-> NoArg]
    /\ payload = 0

NextConfig ==
    \/ \E m \in PipeModes, ex \in BOOLEAN : append(m, ex, NoArg, NoArg)
    \/ LaunchOnce
    \/ \E t \in DOMAIN threads : SpawnStage(t)
    \/ \E t \in DOMAIN threads : LoopExit(t)
    \/ \E p \in DOMAIN procs, c \in NormalExits : ProcExit(p, c)

SpecConfig == InitConfig /\ [][NextConfig]_vars

----------------------------------------------------------------------------
(* lockfile.py.  The processes using a PIDLock on one path are numbered
   1..NumLockers and a process's number is its PID; each is a Python
   process.  PID StalePid belongs to no process, PID OtherPid to a live
   process that is not Python.  Every step is one system call, so the
   processes interleave between any two of them. *)
StalePid == NumLockers + 1
OtherPid == NumLockers + 2

(* str(pid) + '\n' *)
RECURSIVE PidText(_)
PidText(n) ==
    IF n < 10 THEN <<48 + n, 10>>
    ELSE <<48 + (n \div 10)>> \o PidText(n % 10)

(* int(fh.read().strip()): the number, or -1 where int() raises ValueError
   (the file is empty: it has been opened for writing and not yet written) *)
RECURSIVE ParsePid(_, _)
ParsePid(txt, acc) ==
    IF txt = <<>> THEN acc
    ELSE IF Head(txt) \in {10, 32} THEN ParsePid(Tail(txt), acc)
    ELSE IF Head(txt) \in 48..57
         THEN ParsePid(Tail(txt), (IF acc < 0 THEN 0 ELSE acc * 10)
                                  + Head(txt) - 48)
    ELSE -1

LockIdle == [pc |-> "idle", op |-> "none", phase |-> "pre", done |-> "none",
             result |-> FALSE, exc |-> "none", own |-> FALSE,
             unlinked |-> FALSE, held |-> FALSE]

(* No pipeline is in use: a Pipeline object that is never touched *)
NoPipeline ==
    /\ impl = "pipeline"
    /\ pstdin = "None"
    /\ pstdout = "None"
    /\ pstderr = "None"
    /\ commands = <<>>
    /\ procs = <<>>
    /\ pipes = <<>>
    /\ threads = <<>>
    /\ curthread = 0
    /\ caller = Idle
    /\ capture = NoCapture
    /\ indata = <<>>
    /\ text = TRUE
    /\ files = NoFiles
    /\ obs = ObsIdle
    /\ env = [base |-> NoArg, export |-> NoArg]
    /\ ret = NoRet
    /\ payload = 0

InitLock ==
    /\ NoPipeline
    /\ peek = NoPeek
    /\ \E f \in {<<>>, PidText(StalePid), PidText(OtherPid)} :
          lock = [file |-> f, exists |-> f # <<>>,
                  proc |-> [p \in 1..NumLockers |-> LockIdle],
                  overlap |-> FALSE]

(* check_lock(), lock() and unlock() return r to the program: lock() then
   holds the lock if r, unlock() has given it up *)
Returned(pr, r) ==
    [pr EXCEPT !.pc = "idle", !.done = pr.op, !.result = r,
               !.held = IF pr.op = "lock" THEN r
                        ELSE IF pr.op = "check_lock" THEN @ ELSE FALSE]

(* check_lock() removing the lock file whenever the program calls it and it
   returns True *)
AfterCheckUnlinks(pr, r) ==
    IF pr.op = "lock" /\ pr.phase = "post" THEN Returned(pr, r)
    ELSE IF ~r THEN Returned(pr, FALSE)
    ELSE [pr EXCEPT !.pc = IF pr.op = "lock" THEN "open" ELSE "unlink"]

(* check_lock() returns r, to the program that called it or inside lock()
   and unlock().  lock() lines 106-112: after the first check
   open the file for writing, after the second return its result.
   unlock() lines 126-128: unlink and return True. *)
AfterCheck(pr, r) ==
    IF pr.op = "check_lock" THEN Returned(pr, r)
    ELSE IF pr.op = "lock" /\ pr.phase = "post" THEN Returned(pr, r)
    ELSE IF ~r THEN Returned(pr, FALSE)
    ELSE [pr EXCEPT !.pc = IF pr.op = "lock" THEN "open" ELSE "unlink"]

(* Some process other than p is inside a call of the PIDLock: the use of
   the lock is no longer sequential.  lock.overlap records that this has
   happened when a call began or a process ended. *)
InCall(p) ==
    \E q \in 1..NumLockers : q # p /\ lock.proc[q].pc \notin {"idle", "dead"}

LockCall(p, op) ==
    /\ lock.proc[p].pc = "idle"
    /\ lock' = [lock EXCEPT
                  !.proc[p] = [LockIdle EXCEPT
                                 !.pc = "exists", !.op = op,
                                 !.held = op # "unlock" /\ lock.proc[p].held],
                  !.overlap = @ \/ InCall(p)]
    /\ UNCHANGED <<impl, pstdin, pstdout, pstderr, commands, procs, pipes, threads,
                   curthread, caller, capture, payload, indata, text, files,
                   obs, peek, env, ret>>

(* Any PID but the reader's own counts as stale *)
StaleAlways(pid) == TRUE

(* check_lock() lines 72-86: the PID has no entry in /proc, or its
   /proc/PID/status does not contain 'python' *)
Stale(pid) ==
    \/ pid = OtherPid
    \/ pid \notin 1..NumLockers
    \/ lock.proc[pid].pc = "dead"

(* One system call of process p inside check_lock(), lock() or unlock() *)
LockStep(p) ==
    /\ LET pr == lock.proc[p]
           pid == ParsePid(lock.file, -1)
       IN  CASE pr.pc = "exists" ->
                  lock' = [lock EXCEPT !.proc[p] =
                             IF lock.exists THEN [pr EXCEPT !.pc = "read"]
                             ELSE AfterCheck(pr, TRUE)]
             [] pr.pc = "read" ->
                  lock' = [lock EXCEPT !.proc[p] =
                     IF ~lock.exists
                     THEN [pr EXCEPT !.pc = "idle", !.done = pr.op,
                                     !.exc = "FileNotFoundError"]
                     ELSE IF pid < 0
                     THEN [pr EXCEPT !.pc = "idle", !.done = pr.op,
                                     !.exc = "ValueError"]
                     ELSE IF pid = p
                     THEN AfterCheck([pr EXCEPT !.own = TRUE], TRUE)
                     ELSE IF Stale(pid)
                     THEN [pr EXCEPT !.pc = "stale"]
                     ELSE AfterCheck(pr, FALSE)]
             [] pr.pc = "stale" ->
                  lock' = [lock EXCEPT
                             !.exists = FALSE, !.file = <<>>,
                             !.proc[p] = AfterCheck(
                                 [pr EXCEPT !.unlinked = TRUE], TRUE)]
             [] pr.pc = "open" ->
                  lock' = [lock EXCEPT !.exists = TRUE, !.file = <<>>,
                                       !.proc[p].pc = "write"]
             [] pr.pc = "write" ->
                  lock' = [lock EXCEPT
                             !.exists = TRUE, !.file = PidText(p),
                             !.proc[p] = [pr EXCEPT !.pc = "exists",
                                                    !.phase = "post"]]
             [] pr.pc = "unlink" ->
                  lock' = [lock EXCEPT
                             !.exists = FALSE, !.file = <<>>,
                             !.proc[p] = Returned(
                                 [pr EXCEPT !.unlinked = TRUE], TRUE)]
             [] OTHER -> FALSE
    /\ UNCHANGED <<impl, pstdin, pstdout, pstderr, commands, procs, pipes, threads,
                   curthread, caller, capture, payload, indata, text, files,
                   obs, peek, env, ret>>

(* Process p ends, outside any call, leaving the lock file as it is *)
LockDie(p) ==
    /\ lock.proc[p].pc = "idle"
    /\ lock' = [lock EXCEPT !.proc[p] = [LockIdle EXCEPT !.pc = "dead"],
                             !.overlap = @ \/ InCall(p)]
    /\ UNCHANGED <<impl, pstdin, pstdout, pstderr, commands, procs, pipes, threads,
                   curthread, caller, capture, payload, indata, text, files,
                   obs, peek, env, ret>>

NextLock ==
    \E p \in 1..NumLockers :
        \/ \E op \in {"check_lock", "lock", "unlock"} : LockCall(p, op)
        \/ LockStep(p)
        \/ LockDie(p)

SpecLock == InitLock /\ [][NextLock]_vars

----------------------------------------------------------------------------
(* peek_reader.py: a file opened for writing and reading (w+b), the writer
   that owns it, and a PeekReader on its descriptor.

   peek.disk is the content of the file, peek.fdoff the file offset of the
   open file description, peek.buf what the writer has written and not yet
   flushed (empty at all times for an unbuffered writer or a bare
   descriptor). peek.pos is PeekReader.position, peek.fh whether the
   reader was built from the file object (TRUE) or from the descriptor
   number, peek.closed is is_closed. A call of read_to() is a loop of
   _read() calls, one per step, between which the writer may run: peek.pc is
   "loop" inside it, peek.limit the size it was called with, peek.size what
   is left of it, peek.sentinel whether it stops at a newline, peek.full
   the bytes collected, and, after the return, the bytes returned.
   peek.prev is the position at the call, peek.actor who took the last
   step. The default read size, 65536, is ReadSize here; the file holds at
   most MaxFile bytes, each a newline (10), a letter (97), or a byte that is
   no UTF-8 text on its own (200). *)

(* os.pread(fd, n, off): at most n bytes of the file from offset off *)
Pread(disk, n, off) ==
    IF off >= Len(disk) THEN <<>>
    ELSE SubSeq(disk, off + 1, IF off + n > Len(disk) THEN Len(disk) ELSE off + n)

(* The file offset after lseek(fd, off) and read(fd, n) returning k bytes *)
FdAfterSeekRead(fdoff, off, k) == off + k

(* The file offset after pread(fd, n, off) returning k bytes: pread(2) does
   not change the file offset *)
FdAfterPread(fdoff, off, k) == fdoff

InitPeek ==
    /\ NoPipeline
    /\ lock = NoLock
    /\ \E h \in BOOLEAN, x \in BOOLEAN :
          peek = [NoPeek EXCEPT !.fh = h, !.text = x]

(* The owner of the file writes one byte, or flushes what it has written:
   the bytes go into the file at the file offset, which moves past them *)
PeekWriter ==
    /\ \/ \E b \in {10, 97, 200} :
             /\ Len(peek.disk) + Len(peek.buf) < MaxFile
             /\ peek' = [peek EXCEPT !.buf = Append(@, b), !.actor = "writer"]
       \/ /\ peek.buf # <<>>
          /\ peek' = [peek EXCEPT
                 !.disk = SubSeq(@, 1, peek.fdoff) \o peek.buf
                          \o SubSeq(@, peek.fdoff + Len(peek.buf) + 1, Len(@)),
                 !.fdoff = @ + Len(peek.buf),
                 !.buf = <<>>,
                 !.actor = "writer"]
    /\ UNCHANGED <<impl, pstdin, pstdout, pstderr, commands, procs, pipes, threads,
                   curthread, caller, capture, payload, indata, text, files,
                   obs, lock, env, ret>>

(* The value a reading method returns for the bytes raw: str(raw, 'utf-8')
   in text mode raises on bytes that are no UTF-8 *)
PeekReturn(pk, raw) ==
    [pk EXCEPT !.pc = "idle", !.full = raw,
               !.exc = IF pk.text /\ \E i \in DOMAIN raw : raw[i] >= 128
                       THEN "UnicodeDecodeError" ELSE "none"]

(* One _read(): ValueError on a closed reader, OSError from pread() at a
   negative offset or with a negative size, else the position moves past
   the bytes read *)
PeekRead(pk, n) ==
    IF pk.closed THEN [pk EXCEPT !.pc = "idle", !.exc = "ValueError", !.full = <<>>]
    ELSE IF pk.pos < 0 \/ n < 0
         THEN [pk EXCEPT !.pc = "idle", !.exc = "OSError", !.full = <<>>]
    ELSE LET raw == Pread(pk.disk, n, pk.pos)
         IN  [pk EXCEPT !.pos = @ + Len(raw),
                        !.fdoff = FdAfterPread(@, pk.pos, Len(raw))]

(* The reader's owner calls close(), seek(offset, whence), read(size),
   read_to(size), readline(size), readlines(hint) or readall() *)
PeekCall(op, size, whence) ==
    /\ peek.pc = "idle"
    /\ LET pk == [peek EXCEPT !.op = op, !.size = size, !.limit = size,
                              !.exc = "none",
                              !.prev = peek.pos, !.full = <<>>,
                              !.sentinel = (op = "readline"),
                              !.actor = "reader"]
       IN  CASE op = "close" ->
                 peek' = [pk EXCEPT !.closed = TRUE, !.fh = FALSE]
             [] op = "seek" ->
                 LET to == CASE whence = "SEEK_CUR" -> peek.pos + size
                             [] whence = "SEEK_END" ->
                                  IF peek.fh
                                  THEN peek.fdoff + Len(peek.buf) + size
                                  ELSE peek.pos + size
                             [] OTHER -> size
                 IN  /\ to \in -1..(MaxFile + 1)
                     /\ peek' = [pk EXCEPT !.pos = to]
             [] op = "read" ->
                 LET rd == PeekRead(pk, size)
                 IN  peek' = IF rd.exc # "none" THEN rd
                             ELSE PeekReturn(rd, Pread(pk.disk, size, pk.pos))
             [] op = "readall" ->
                 peek' = [pk EXCEPT !.pos = 0, !.size = -1, !.limit = -1,
                                    !.pc = "loop"]
             [] OTHER ->
                 peek' = [pk EXCEPT !.pc = "loop"]
    /\ UNCHANGED <<impl, pstdin, pstdout, pstderr, commands, procs, pipes, threads,
                   curthread, caller, capture, payload, indata, text, files,
                   obs, lock, env, ret>>

(* A read_to() that leaves the position after the whole chunk *)
UnreadNothing(chunk, k) == 0

(* read_to() line 180, len(parts[2]): the bytes of the chunk after the
   sentinel, which ends at byte k of it; the position moves back over
   them *)
Unread(chunk, k) == Len(chunk) - k

(* One round of the loop of read_to() *)
PeekStep ==
    /\ peek.pc = "loop"
    /\ LET rsize == IF peek.size < 0 THEN ReadSize ELSE peek.size
           rd == PeekRead([peek EXCEPT !.actor = "reader"], rsize)
           chunk == Pread(peek.disk, rsize, peek.pos)
           nl == {i \in DOMAIN chunk : chunk[i] = 10}
       IN  IF rd.exc # "none" THEN peek' = rd
           ELSE IF chunk = <<>> THEN peek' = PeekReturn(rd, peek.full)
           ELSE IF peek.sentinel /\ nl # {}
           THEN LET k == CHOOSE i \in nl : \A j \in nl : i <= j
                IN  peek' = PeekReturn(
                        [rd EXCEPT !.pos = @ - Unread(chunk, k)],
                        peek.full \o SubSeq(chunk, 1, k))
           ELSE peek' = [rd EXCEPT
                    !.size = IF @ > 0 THEN @ - Len(chunk) ELSE @,
                    !.full = @ \o chunk]
    /\ UNCHANGED <<impl, pstdin, pstdout, pstderr, commands, procs, pipes, threads,
                   curthread, caller, capture, payload, indata, text, files,
                   obs, lock, env, ret>>

NextPeek ==
    \/ PeekWriter
    \/ \E op \in {"close", "read", "read_to", "readline", "readlines", "readall"},
          size \in -1..ReadSize : PeekCall(op, size, "SEEK_SET")
    \/ \E offset \in -1..1, whence \in {"SEEK_SET", "SEEK_CUR", "SEEK_END"} :
          PeekCall("seek", offset, whence)
    \/ PeekStep

SpecPeek == InitPeek /\ [][NextPeek]_vars

----------------------------------------------------------------------------
(* Properties *)

(* The processes that an execution of the launch sequence has spawned *)
SpawnedBy(t) == {p \in DOMAIN procs : procs[p].thread = t}

(* C1: launch is single-shot: a second call to launch() on a pipeline that
   has been launched raises an error, and every process of the pipeline was
   spawned by the first launch. *)
C1_LaunchSingleShot ==
    /\ \A p \in DOMAIN procs : procs[p].thread = 1
    /\ (ret.op = "launch" /\ Len(threads) >= 2) => ret.exc # "none"

(* C2: rollback on partial launch: when the launch sequence has ended
   because stage i (i >= 1, counted from 0) could not be spawned, every
   stage it had spawned before has exited or has been sent a signal. *)
C2_RollbackOnPartialLaunch ==
    \A t \in DOMAIN threads :
        (threads[t].pc = "error" /\ threads[t].exc = "FileNotFoundError"
            /\ threads[t].i >= 2)
        => \A p \in SpawnedBy(t) :
              procs[p].state = "exited" \/ procs[p].signalled # 0

(* C3: spawn errors are surfaced synchronously: when the first stage names
   a nonexistent executable, a call to launch() that returns has raised the
   spawn error, and no process has been spawned. *)
C3_SpawnErrorSynchronous ==
    (ret.op = "launch" /\ Len(commands) >= 1 /\ ~commands[1].exists)
    => (ret.exc = "FileNotFoundError" /\ procs = <<>>)

(* The process that the same execution of the launch sequence spawned for
   the stage before p's: 0 if there is none *)
Pred(p) ==
    LET qs == {q \in SpawnedBy(procs[p].thread) :
                  q < p /\ procs[q].stage = procs[p].stage - 1}
    IN  IF qs = {} THEN 0 ELSE CHOOSE q \in qs : TRUE

(* C4: strict left-to-right spawn order: a process of a stage after the
   first exists only if the same launch sequence spawned the stage before it
   earlier and that stage's forwarded-stream pipe exists. *)
C4_SpawnOrder ==
    \A p \in DOMAIN procs :
        procs[p].stage > 1
        => (Pred(p) # 0 /\ FwdPipe(procs[Pred(p)]) # 0)

(* C5: correct wiring: the stdin of every process of a stage after the first
   is the read end of the pipe attached to the designated stream of the
   stage before it, for every pipe mode. *)
C5_CorrectWiring ==
    \A p \in DOMAIN procs :
        procs[p].stage > 1
        => /\ Pred(p) # 0
           /\ FwdPipe(procs[Pred(p)]) # 0
           /\ procs[p].stdin = [kind |-> "pipe", id |-> FwdPipe(procs[Pred(p)])]

(* C6: descriptor-closing discipline: once stage i+1 has been spawned, the
   parent's read end of stage i's forwarded-stream pipe is closed. *)
C6_DescriptorsClosed ==
    \A p \in DOMAIN procs :
        (procs[p].stage > 1 /\ Pred(p) # 0 /\ FwdPipe(procs[Pred(p)]) # 0)
        => ~pipes[FwdPipe(procs[Pred(p)])].parentRead

(* C8: is_running is exact: the value is_running() returns is true if and
   only if some command's process has been spawned and has not exited. *)
C8_IsRunningExact ==
    ret.op = "is_running"
    => (ret.val <=> \E p \in Handles(commands) : procs[p].state = "running")

(* The state of command i's process *)
Spawned(i) == commands[i].subproc # 0
Exited(i) == Spawned(i) /\ procs[commands[i].subproc].state = "exited"
ExitCode(i) == procs[commands[i].subproc].code

(* C9 as stated: poll() returns one entry per stage, in stage order; the
   entry is None whenever the stage has not been spawned or has not exited,
   and the stage's exit code exactly when it has exited. *)
C9_PollNoneUnlessExited ==
    ret.op = "poll"
    => /\ Len(ret.val) = Len(commands)
       /\ \A i \in DOMAIN commands :
             ret.val[i] = IF Exited(i) THEN IntV(ExitCode(i)) ELSE NoneV

(* C9 amended: poll() returns one entry per stage, in stage order; the
   entry is False when the stage has no process, None when its process has
   not exited, and the exit code exactly when it has exited. *)
C9_PollEntries ==
    ret.op = "poll"
    => /\ Len(ret.val) = Len(commands)
       /\ \A i \in DOMAIN commands :
             ret.val[i] = IF ~Spawned(i) THEN FalseV
                          ELSE IF Exited(i) THEN IntV(ExitCode(i))
                          ELSE NoneV

C9_Witness ==
    /\ ret.op = "poll"
    /\ Len(ret.val) = 2
    /\ ret.val[1] \in {NoneV, IntV(1)}
    /\ ret.val[2] = FalseV
    /\ \E t \in DOMAIN threads : threads[t].pc = "error"

(* C10: in pipeline.py, poll() and wait() each return a list with as many
   elements as commands; an element is False exactly for a command whose
   process has not been created, None only from poll and only for a running
   process, and otherwise the return code of the finished process. *)
C10_PollWaitLists ==
    (ret.op \in {"poll", "wait"} /\ ret.exc = "none")
    => /\ Len(ret.val) = Len(commands)
       /\ \A i \in DOMAIN commands :
             /\ ret.val[i] = FalseV <=> ~Spawned(i)
             /\ ret.val[i] = NoneV
                   => (ret.op = "poll" /\ Spawned(i) /\ ~Exited(i))
             /\ ret.val[i].k = "int"
                   => (Exited(i) /\ ret.val[i].v = ExitCode(i))
             /\ ret.op = "wait" => ret.val[i].k \in {"int", "False"}

C10_Witness ==
    /\ ret.op = "wait"
    /\ ret.exc = "none"
    /\ Len(ret.val) = 2
    /\ ret.val[1] = IntV(-SIGTERM)
    /\ ret.val[2] = FalseV

(* C7: no pipe deadlock: once a two-stage pipeline producer | consumer has
   been launched, with the producer writing more bytes than a pipe holds and
   the consumer reading to end of file, both stages eventually have exited. *)
C7_NoPipeDeadlock ==
    (Len(threads) = 1) ~> (Len(commands) = 2 /\ Exited(1) /\ Exited(2))

C7_Witness ==
    /\ payload > PipeCap
    /\ Len(commands) = 2
    /\ Exited(1) /\ ExitCode(1) = 0 /\ procs[commands[1].subproc].left = 0
    /\ Exited(2) /\ ExitCode(2) = 0
    /\ \A x \in DOMAIN pipes : pipes[x].buf = <<>>

----------------------------------------------------------------------------
(* A pipeline that was launched once, after all its commands were appended,
   and whose launch sequence raised nothing *)
LaunchedOnce ==
    /\ Len(threads) = 1
    /\ threads[1].exc = "none"
    /\ \A i \in DOMAIN commands : Spawned(i)

(* C11: when wait() without a timeout returns on a pipeline of N >= 1 stages
   whose launch did not fail, every stage has exited and the result carries
   the real exit status of the stages: the list of the N statuses in stage
   order (pipeline.py), the status of the reported stage (subpipe.py). *)
C11_WaitAllExitCodes ==
    [][(/\ caller.pc = "wait"
        /\ ~caller.timeout
        /\ ret'.op = "wait"
        /\ ret'.exc = "none"
        /\ LaunchedOnce)
       => /\ \A i \in DOMAIN commands : Exited(i)
          /\ impl = "pipeline"
                => ret'.val = [i \in DOMAIN commands |-> IntV(ExitCode(i))]
          /\ impl = "subpipe"
                => ret'.val.code = IntV(ExitCode(Len(commands)))]_vars

(* C12: timeout without implicit cancellation: when wait(timeout) ends by
   raising while some stage is still running, the error is the timeout
   error, no signal has been sent to any process, and is_running() is
   still true. *)
C12_TimeoutNoCancel ==
    [][(/\ caller.pc = "wait"
        /\ caller.timeout
        /\ ret'.op = "wait"
        /\ ret'.exc # "none"
        /\ \E p \in Handles(commands) : procs[p].state = "running")
       => /\ ret'.exc = "TimeoutExpired"
          /\ \A p \in DOMAIN procs : procs'[p].signalled = procs[p].signalled
          /\ IsRunningValue']_vars

(* The aggregate of the stages' exit codes: not yet available (None) while
   some stage has not exited, otherwise the first non-zero code in stage
   order, 0 when there is none *)
ExitAggregate ==
    IF \E i \in DOMAIN commands : ~Exited(i) THEN NoneV
    ELSE LET bad == {i \in DOMAIN commands : ExitCode(i) # 0}
         IN  IF bad = {} THEN IntV(0)
             ELSE IntV(ExitCode(CHOOSE i \in bad : \A j \in bad : i <= j))

(* C16: exit-code aggregation: the exit code returned by wait() of
   subpipe.py is the first non-zero exit code in stage order, 0 if every
   stage exited with 0, and None if some stage has not exited, for every
   pipeline whose launch did not fail. *)
C16_ExitCodeAggregation ==
    (impl = "subpipe" /\ ret.op = "wait" /\ ret.exc = "none" /\ LaunchedOnce)
    => ret.val.code = ExitAggregate

(* C17: captured output is published once and only at completion: for a
   pipeline launched once with all its stages, the captured output and error
   are assigned at most once, and whenever they are assigned every stage has
   exited. *)
C17_CaptureOnceAtCompletion ==
    (Len(threads) = 1 /\ \A i \in DOMAIN commands : Spawned(i))
    => /\ capture.assigned <= 1
       /\ capture.assigned >= 1 => \A i \in DOMAIN commands : Exited(i)

(* C13: the timeout of wait(timeout) bounds the whole call: while the call
   is in progress no more than timeout clock ticks have passed since it
   began, whatever the number of stages and the order of their exits. *)
C13_TimeoutBoundsCall ==
    (caller.pc = "wait" /\ caller.timeout) => caller.total <= TimeoutTicks

(* C14: signal broadcast: when send_signal(sig), terminate() or kill()
   returns it has raised nothing; every process of a stage that was running
   when the call began and is still running has been sent sig; a process
   that had already exited when the call began has been sent nothing, and
   os.kill was called only for processes of the pipeline's stages. *)
C14_SignalBroadcast ==
    ret.op = "send_signal"
    => /\ ret.exc = "none"
       /\ \A p \in ret.val.live \cap Handles(commands) :
             procs[p].state = "running" => procs[p].signalled = ret.val.sig
       /\ (ret.val.killed \cup ret.val.raced) \cap ret.val.dead = {}
       /\ ret.val.killed \cup ret.val.raced \subseteq DOMAIN procs

(* The broadcast met a stage that had exited before the call, one that
   exited between the liveness check and the delivery, or an unspawned one,
   and still reached a later running stage *)
C14_Witness ==
    /\ ret.op = "send_signal"
    /\ ret.exc = "none"
    /\ Len(commands) = 2
    /\ Spawned(1) /\ Spawned(2)
    /\ commands[1].subproc \in ret.val.raced
    /\ commands[2].subproc \in ret.val.killed
    /\ procs[commands[2].subproc].signalled = ret.val.sig

(* The exit status of the stage that a returned wait() reports *)
WaitStatus ==
    IF impl = "pipeline" THEN ret.val[1] ELSE ret.val.code

(* C15: terminate() followed by wait() on a launched, long-running
   single-stage pipeline: once terminate() has returned, wait() eventually
   returns, and the exit status it returns for the stage is that of a
   process ended by SIGTERM, not a normal exit code. *)
C15_TerminateThenWait ==
    (ret.op = "send_signal")
    ~> (ret.op = "wait" /\ ret.exc = "none" /\ WaitStatus = IntV(-SIGTERM))

C15_Witness ==
    /\ Len(commands) = 1
    /\ Exited(1)
    /\ ExitCode(1) = -SIGTERM
    /\ ret.op = "wait"
    /\ ret.exc = "none"
    /\ WaitStatus = IntV(-SIGTERM)

----------------------------------------------------------------------------
(* Captured data *)

(* Every stage has been spawned and has exited, launch() has returned and
   the background thread has finished *)
Completed ==
    /\ Len(threads) = 1
    /\ threads[1].exc = "none"
    /\ \A i \in DOMAIN commands : Spawned(i) /\ Exited(i)
    /\ caller.pc = "idle"
    /\ impl = "subpipe" => threads[1].pc = "done"

(* What the caller gets as the captured output and error: pipeline.py the
   contents of the temporary files (or None without one), subpipe.py
   Pipeline.output and Pipeline.error *)
CapturedOutput ==
    IF impl = "subpipe" THEN capture.output
    ELSE IF pstdout = "FILE" THEN DataV(files.stdout) ELSE NoneV

CapturedError ==
    IF impl = "subpipe" THEN capture.error
    ELSE IF pstderr = "FILE" THEN DataV(files.stderr) ELSE NoneV

(* The bytes that a captured value stands for: a str stands for its
   encoding *)
BytesOf(v) == IF impl = "subpipe" /\ text THEN Utf8(v.v) ELSE v.v

FinalProc == procs[Last(commands).subproc]

(* C18: capture completeness: once the pipeline has completed, the
   captured output is exactly the sequence of bytes the final stage wrote
   to its standard output, and the captured error, when there is one, is
   exactly what it wrote to its standard error: nothing missing, changed,
   duplicated or truncated, also for outputs longer than a pipe holds. *)
C18_CaptureComplete ==
    Completed =>
        /\ CapturedOutput # NoneV
        /\ BytesOf(CapturedOutput) = FinalProc.wrote
        /\ CapturedError # NoneV =>
              BytesOf(CapturedError) = FinalProc.wroteErr

(* C19: independent capture of stdout and stderr: a single stage that
   writes more than a pipe holds to both streams, both captures asked for,
   completes, and once it has completed each captured buffer holds exactly
   the bytes written to its own stream. *)
BothRequested == pstdout \in {"PIPE", "FILE"} /\ pstderr \in {"PIPE", "FILE"}

C19_BothCaptured ==
    (Completed /\ Len(commands) = 1 /\ BothRequested) =>
        /\ CapturedOutput # NoneV
        /\ CapturedError # NoneV
        /\ CapturedOutput.v = FinalProc.wrote
        /\ CapturedError.v = FinalProc.wroteErr

C19_Completes ==
    (Len(threads) = 1 /\ Len(commands) = 1 /\ BothRequested) ~> Completed

(* C20: end-to-end data flow: once the pipeline fed the payload has
   completed, the captured output is the payload with the stages'
   translations applied in stage order, and every stage has exited with
   code 0. *)
RECURSIVE Through(_, _, _)
Through(k, n, bs) ==
    IF k > n THEN bs ELSE Through(k + 1, n, TransformAll(k, bs))

C20_EndToEnd ==
    Completed =>
        /\ CapturedOutput # NoneV
        /\ BytesOf(CapturedOutput) = Through(1, Len(commands), Utf8(indata))
        /\ \A i \in DOMAIN commands : ExitCode(i) = 0

----------------------------------------------------------------------------
(* Concurrent queries *)

(* C21: poll, is_running and send_signal never block and are safe
   concurrently with an in-progress wait and with the thread that spawns the
   stages: in every interleaving no such call has raised, and a call that
   has begun can always take its next step, whatever the state of the
   processes, of the wait and of the launch. *)
C21_QueriesNeverBlock ==
    /\ obs.exc = "none"
    /\ obs.pc # "idle" => ENABLED ObsProgress

(* a send_signal from the second thread has returned while the first is
   inside wait(), after the waited process exited between the poll and
   os.kill *)
C21_Witness ==
    /\ obs.done = "send_signal"
    /\ caller.pc = "wait"
    /\ \E p \in DOMAIN procs : procs[p].state = "exited"
                               /\ procs[p].returncode = NoneV
                               /\ WaitHolds(p)

----------------------------------------------------------------------------
(* The stage list *)

(* A command without its process handle *)
Descriptor(item) == [mode |-> item.mode, exists |-> item.exists,
                     stdout |-> item.stdout, stderr |-> item.stderr,
                     stream |-> item.stream]
Descriptors(cs) == [x \in DOMAIN cs |-> Descriptor(cs[x])]

(* C22: the stage list is immutable after launch: once launch() has been
   called no step changes the sequence of stages or any stage's
   descriptor. *)
C22_StagesFrozenAfterLaunch ==
    [][threads # <<>> => Descriptors(commands') = Descriptors(commands)]_vars

(* C23: the final stage's stdout and stderr are the pipeline-level
   configuration, whatever pipe mode was given to append: once a pipeline
   has been launched and its stages spawned, the last stage's process writes
   its stdout and stderr where the pipeline's stdout and stderr say. *)
C23_FinalStageRouting ==
    LaunchedOnce =>
        /\ procs[Last(commands).subproc].out = pstdout
        /\ procs[Last(commands).subproc].err = pstderr

----------------------------------------------------------------------------
(* Environments *)

(* C24: environment overlay: the environment of every stage appended
   without a base environment of its own is the pipeline-wide base
   environment overlaid with the pipeline-level export variables and then
   with the stage's export variables, so that a pipeline-level export
   variable that the stage does not override is present in it. *)
C24_EnvironmentOverlay ==
    \A i \in DOMAIN commands :
        ~commands[i].base_env.given =>
            commands[i].environ =
                Overlay(Overlay(IF env.base.given THEN env.base.d
                                ELSE OsEnviron,
                                env.export.d),
                        commands[i].export.d)

----------------------------------------------------------------------------
(* Configuration errors *)

(* C25: stream configuration errors precede any spawn: when the file named
   for the pipeline's stdout or stderr cannot be opened, no stage process
   is ever created. *)
C25_ConfigErrorBeforeSpawn ==
    "UNOPENED" \in {pstdout, pstderr} => procs = <<>> /\ threads = <<>>

(* the constructor has raised for the file named for stdout *)
C25_Witness ==
    /\ pstdout = "UNOPENED"
    /\ ret = [NoRet EXCEPT !.op = "__init__", !.exc = "OSError"]
    /\ caller.pc = "noobject"

----------------------------------------------------------------------------
(* Exit codes *)

(* C26: a stage's exit code is data, not an error: on a launched pipeline
   every poll() and wait() that has completed either returned normally, with
   each exit code it reports being that stage's own, zero or not, or is a
   wait that raised the timeout error; nothing else is raised. *)
C26_ExitCodeIsData ==
    (ret.op \in {"wait", "poll"} /\ threads # <<>>) =>
        /\ ret.exc \in {"none", "TimeoutExpired"}
        /\ ret.exc = "TimeoutExpired" => ret.op = "wait"
        /\ (ret.exc = "none" /\ impl = "pipeline") =>
              \A i \in DOMAIN ret.val :
                  ret.val[i].k = "int" =>
                      Spawned(i) /\ Exited(i) /\ ret.val[i].v = ExitCode(i)
        /\ (ret.exc = "none" /\ impl = "subpipe") =>
              (ret.val.code.k = "int" =>
                  ret.val.code.v = ExitCode(Len(commands)))

(* C27: in subpipe.py a wait() on a launched pipeline that has returned
   did so after the background thread and every subcommand had terminated,
   and its 3-tuple holds the final stage's actual exit status, never None,
   and the output and error collected from the final stage. *)
C27_SubWaitResult ==
    (impl = "subpipe" /\ ret.op = "wait" /\ ret.exc = "none"
     /\ threads # <<>>) =>
        /\ ~ThreadAlive(threads, curthread)
        /\ \A p \in Handles(commands) : procs[p].state = "exited"
        /\ ret.val.code # NoneV
        /\ Spawned(Len(commands)) =>
              ret.val.code = IntV(ExitCode(Len(commands)))
        /\ ret.val.output = capture.output
        /\ ret.val.error = capture.error

----------------------------------------------------------------------------
(* PIDLock *)

(* C28: PIDLock mutual exclusion: no two live processes have both had
   lock() return True on the same path without having since called
   unlock() or died. *)
C28_MutualExclusion ==
    \A p, q \in 1..NumLockers :
        (lock.proc[p].held /\ lock.proc[q].held) => p = q

(* C29: unlock() has removed the lock file and returned True only if it
   found the caller's own PID in the lock file; in every other case it has
   returned False and has removed nothing. *)
C29_UnlockOnlyOwn ==
    \A p \in 1..NumLockers :
        (lock.proc[p].done = "unlock" /\ lock.proc[p].exc = "none") =>
            /\ lock.proc[p].result = lock.proc[p].own
            /\ lock.proc[p].unlinked = lock.proc[p].own

(* C30: PeekReader reads do not disturb the writer: no step of read(),
   read_to(), readline(), readlines(), readall(), seek() or close() changes
   the file offset of the writer (that of the descriptor, and what the
   writer's tell() gives), its unflushed data or the file's content, and no
   write or flush of the writer changes the position of the PeekReader. *)
C30_ReadsDoNotDisturbWriter ==
    [][/\ peek'.actor = "reader" =>
             /\ peek'.fdoff = peek.fdoff
             /\ peek'.buf = peek.buf
             /\ peek'.disk = peek.disk
       /\ peek'.actor = "writer" => peek'.pos = peek.pos]_vars

(* A read_to() that has read data the writer flushed while the reader was
   at another position than the writer *)
C30_Witness ==
    /\ peek.actor = "reader"
    /\ peek.op \in {"read_to", "readline", "readlines", "readall"}
    /\ peek.pc = "idle"
    /\ peek.exc = "none"
    /\ peek.full # <<>>
    /\ peek.pos # peek.fdoff + Len(peek.buf)
    /\ peek.buf # <<>>

(* C31: close() leaves the file to its writer, and on a closed PeekReader
   every read(), read_to(), readline(), readlines() and readall() raises
   ValueError with the position where it was at the call; readable() and
   seekable(), which are "not is_closed", are false from then on. *)
C31_ClosedReaderRaises ==
    (/\ peek.closed
     /\ peek.pc = "idle"
     /\ peek.op \in {"read", "read_to", "readline", "readlines", "readall"})
    => /\ peek.exc = "ValueError"
       /\ peek.pos = peek.prev

(* C32: input payload delivery in subpipe.py: with an input payload and more
   than one stage, the first stage's stdin is the temporary file, holding
   exactly the payload, whatever stdin the caller gave; with one stage the
   payload goes to communicate() on that stage; either way the first stage
   reads the payload from its start, nothing else, and then end of file: what
   its filter has written is the translation of a prefix of the payload, and
   of all of it once the filter has exited at end of input. *)
C32_PayloadDelivered ==
    (impl = "subpipe" /\ indata # <<>>) =>
        \A p \in DOMAIN procs :
            procs[p].stage = 1 =>
                /\ Len(commands) > 1 =>
                      /\ procs[p].stdin = TempFile
                      /\ files.stdin.data = Utf8(indata)
                /\ Len(commands) = 1 => procs[p].stdin # TempFile
                /\ \E n \in 0..Len(Utf8(indata)) :
                      procs[p].wrote =
                          TransformAll(1, SubSeq(Utf8(indata), 1, n))
                /\ (procs[p].state = "exited" /\ procs[p].code = 0) =>
                      procs[p].wrote = TransformAll(1, Utf8(indata))

(* Process p returns from the call op in this step *)
Returns(p, op) ==
    /\ lock.proc[p].op = op
    /\ lock.proc[p].pc \notin {"idle", "dead"}
    /\ lock'.proc[p].pc = "idle"

(* The lock file holds the PID of a live Python process other than p *)
HeldByOther(p) ==
    /\ lock.exists
    /\ ParsePid(lock.file, -1) \in 1..NumLockers \ {p}
    /\ lock.proc[ParsePid(lock.file, -1)].pc # "dead"

(* C33: what check_lock() does with the lock file it finds, no other
   process being inside a call meanwhile: with no lock file it returns
   True; with its own PID in the file it returns True and leaves the file;
   with the PID of another live Python process it returns False and leaves
   the file; with any other PID (no such process, or one that is not
   Python) it returns True and has removed the file. *)
C33_CheckLockTable ==
    [][\A p \in 1..NumLockers :
          (Returns(p, "check_lock") /\ ~lock.overlap) =>
              /\ lock'.proc[p].exc = "none"
              /\ IF ~lock.exists
                 THEN /\ lock'.proc[p].result
                      /\ ~lock'.exists
                 ELSE IF ParsePid(lock.file, -1) = p
                 THEN /\ lock'.proc[p].result
                      /\ lock'.exists /\ lock'.file = lock.file
                 ELSE IF HeldByOther(p)
                 THEN /\ ~lock'.proc[p].result
                      /\ lock'.exists /\ lock'.file = lock.file
                 ELSE /\ lock'.proc[p].result
                      /\ ~lock'.exists]_vars

(* check_lock() has returned False in sequential use: the lock file names
   the other process, which is alive *)
C33_Witness ==
    /\ ~lock.overlap
    /\ \E p \in 1..NumLockers :
          /\ lock.proc[p].done = "check_lock"
          /\ lock.proc[p].pc = "idle"
          /\ ~lock.proc[p].result
          /\ HeldByOther(p)

(* C34: a held PIDLock is not stolen in sequential use: as long as a
   process holds the lock (its lock() has returned True and it has not
   called unlock() or ended) and is outside any call, the lock file exists
   and holds its PID, whatever the other processes call; lock() and
   unlock() of another process return False and leave the file as it is;
   and lock() of the process that holds the lock returns True with its PID
   in the file. *)
C34_HeldLockNotStolen ==
    [][\A p \in 1..NumLockers :
          ~lock'.overlap =>
              /\ (lock'.proc[p].held /\ lock'.proc[p].pc = "idle") =>
                    lock'.exists /\ lock'.file = PidText(p)
              /\ ((Returns(p, "lock") \/ Returns(p, "unlock"))
                     /\ HeldByOther(p)) =>
                    /\ lock'.proc[p].exc = "none"
                    /\ ~lock'.proc[p].result
                    /\ lock'.exists /\ lock'.file = lock.file
              /\ (Returns(p, "lock") /\ lock.proc[p].held) =>
                    /\ lock'.proc[p].exc = "none"
                    /\ lock'.proc[p].result
                    /\ lock'.exists /\ lock'.file = PidText(p)]_vars

(* One process holds the lock and unlock() of the other has returned
   False *)
C34_Witness ==
    /\ ~lock.overlap
    /\ \E p, q \in 1..NumLockers :
          /\ p # q
          /\ lock.proc[q].held
          /\ lock.proc[q].done = "lock"
          /\ lock.file = PidText(q)
          /\ lock.proc[p].pc = "idle"
          /\ lock.proc[p].done = "unlock"
          /\ ~lock.proc[p].result

(* C35: in subpipe.py a terminate() or kill() that has returned after
   launch() stops the whole pipeline: the launch sequence comes to its end
   and every process it has spawned, before the broadcast or after it,
   exits. *)
C35_BroadcastStopsPipeline ==
    (impl = "subpipe" /\ threads # <<>> /\ ret.op = "send_signal")
    ~> (/\ \A t \in DOMAIN threads : threads[t].pc # "spawn"
        /\ \A p \in DOMAIN procs : procs[p].state = "exited")

(* C36: wait() with no timeout terminates: when every spawned stage exits in
   the end, a wait() without timeout that has been called returns or
   raises, also after a launch sequence that ended on a stage that could
   not be spawned. *)
C36_WaitTerminates ==
    (caller.pc = "wait" /\ ~caller.timeout) ~> (ret.op = "wait")

(* wait() has returned in subpipe.py after the background thread died on a
   stage that could not be spawned *)
C36_Witness ==
    /\ impl = "subpipe"
    /\ ret.op = "wait"
    /\ ret.exc = "none"
    /\ curthread # 0
    /\ threads[curthread].pc = "error"
    /\ Len(commands) >= 2
    /\ commands[1].subproc # 0
    /\ Last(commands).subproc = 0

(* C37: exit codes are stable: once the exit code of a stage's process is
   known to the pipeline object (poll(), wait() or a broadcast has seen the
   process exited), the stage keeps that process and that exit code, and
   every poll() and wait() of pipeline.py that returns afterwards reports
   that code for the stage. *)
C37_ExitCodesStable ==
    [][\A i \in DOMAIN commands :
          LET p == commands[i].subproc
          IN  (p # 0 /\ procs[p].returncode # NoneV) =>
                 /\ commands'[i].subproc = p
                 /\ procs'[p].returncode = procs[p].returncode
                 /\ (/\ impl = "pipeline"
                     /\ ret'.op \in {"poll", "wait"}
                     /\ ret'.exc = "none") =>
                        ret'.val[i] = procs[p].returncode]_vars

(* C38: empty pipeline: as long as no command has been appended, launch()
   spawns no process and starts no launch sequence or thread, is_running()
   returns False, the broadcasts signal nothing, and wait() returns without
   raising. *)
C38_EmptyPipeline ==
    Len(commands) = 0 =>
        /\ procs = <<>>
        /\ threads = <<>>
        /\ curthread = 0
        /\ ret.op = "is_running" => ret.val = FALSE
        /\ ret.op \in {"launch", "is_running", "send_signal", "wait"} =>
              ret.exc = "none"

(* C39: position accounting of a binary-mode PeekReader: when read(),
   read_to(), readline() or readlines() returns, the bytes returned are the
   bytes of the file from the position at the call to the new position,
   which is the old one plus their number, and they are no more than the
   size asked for; readline() returns no newline but as its last byte, and
   it stops short of a newline only at the size asked for or at the end of
   the data in the file. *)
C39_PositionAccounting ==
    [][(/\ peek'.actor = "reader"
        /\ ~peek'.text
        /\ peek'.pc = "idle"
        /\ peek'.exc = "none"
        /\ peek'.op \in {"read", "read_to", "readline", "readlines"}) =>
          /\ peek'.pos = peek'.prev + Len(peek'.full)
          /\ peek'.full = SubSeq(peek'.disk, peek'.prev + 1, peek'.pos)
          /\ peek'.limit >= 0 => Len(peek'.full) <= peek'.limit
          /\ peek'.op = "readline" =>
                /\ \A j \in 1..(Len(peek'.full) - 1) : peek'.full[j] # 10
                /\ \/ peek'.full # <<>> /\ Last(peek'.full) = 10
                   \/ peek'.limit >= 0 /\ Len(peek'.full) = peek'.limit
                   \/ peek'.pos >= Len(peek'.disk)]_vars

(* readline() has returned a line from a chunk that held more than the
   line, and the position is at the byte after the newline *)
C39_Witness ==
    /\ peek.actor = "reader"
    /\ ~peek.text
    /\ peek.op = "readline"
    /\ peek.pc = "idle"
    /\ peek.exc = "none"
    /\ peek.full # <<>>
    /\ Last(peek.full) = 10
    /\ peek.pos < Len(peek.disk)
    /\ peek.pos = peek.prev + Len(peek.full)

============================================================================
